---- MODULE Spec2Model ----
(***************************************************************************)
(* Model of hfget: the plan builder, the transfer engine, the progress     *)
(* reporter and the CLI retry loop (downloader.go, api.go, options.go,     *)
(* cmd/main.go).                                                           *)
(*                                                                         *)
(* Strings are sequences of one-character strings; a path is a record      *)
(* [abs, segs] whose segs are the "/"-separated segments.  File contents   *)
(* are sequences of bytes.  1 MiB is scaled to MiB bytes so that the       *)
(* multi-stream threshold is reachable.                                    *)
(***************************************************************************)
EXTENDS Integers, Sequences, FiniteSets, TLC

\* ------------------------------------------------------------------ bounds
MaxFiles == 2        \* manifest entries per repository
MaxLen == 3          \* longest file content, in bytes
MiB == 1             \* bytes standing for 1024*1024 (downloader.go:439)
MaxConn == 3         \* largest connection count tried
MaxWorkers == 2      \* largest connection count of a transfer run in steps
MaxChan == 1         \* largest capacity of the progress channel
MaxTime == 100       \* the clock stops here (ms)
TickMs == 50         \* one step of the clock (ms)
MaxRetries == 3      \* largest -max-retries tried

\* ----------------------------------------------------------- small helpers
Nil == "nil"            \* a nil error where errors are strings
NoFile == <<-1>>        \* what a path holds when no file is there
NoChecksum == -1        \* the empty string as a checksum or an LFS oid

\* a total that counts the entries instead of adding their sizes
SumSizesCount(entries) == Len(entries)

RECURSIVE SumSizes(_)
SumSizes(entries) ==
  IF entries = <<>> THEN 0
  ELSE Head(entries).File.Size + SumSizes(Tail(entries))

RECURSIVE Concat(_)
Concat(ss) == IF ss = <<>> THEN <<>> ELSE Head(ss) \o Concat(Tail(ss))

\* ------------------------------------------------- crypto/sha256 + hex
\* An injective digest of a byte sequence (collision-free abstraction):
\* the bytes, each below 15, read as the digits of a number in base 16.
RECURSIVE Sha256Acc(_, _)
Sha256Acc(c, h) ==
  IF c = <<>> THEN h ELSE Sha256Acc(Tail(c), 16 * h + Head(c) + 1)

Sha256(c) == Sha256Acc(c, 0)

\* ------------------------------------------------------- path/filepath
DotDot == <<".", ".">>
Dot == <<".">>

\* filepath.Clean on the segment list
RECURSIVE CleanAcc(_, _, _)
CleanAcc(abs, segs, out) ==
  IF segs = <<>> THEN out
  ELSE LET s == Head(segs) IN
    IF s = <<>> \/ s = Dot THEN CleanAcc(abs, Tail(segs), out)
    ELSE IF s = DotDot THEN
      IF out # <<>> /\ out[Len(out)] # DotDot
        THEN CleanAcc(abs, Tail(segs), SubSeq(out, 1, Len(out) - 1))
      ELSE IF abs THEN CleanAcc(abs, Tail(segs), out)
      ELSE CleanAcc(abs, Tail(segs), Append(out, s))
    ELSE CleanAcc(abs, Tail(segs), Append(out, s))

Clean(p) == [abs |-> p.abs, segs |-> CleanAcc(p.abs, p.segs, <<>>)]

\* filepath.Join(base, rel): concatenate with a separator, then Clean
Join(base, relSegs) == Clean([abs |-> base.abs, segs |-> base.segs \o relSegs])

\* the process working directory
Cwd == [abs |-> TRUE, segs |-> << <<"w">> >>]

\* filepath.Abs
Abs(p) == IF p.abs THEN Clean(p) ELSE Join(Cwd, p.segs)

\* the path as the string the program compares
RECURSIVE RenderSegs(_)
RenderSegs(segs) ==
  IF segs = <<>> THEN <<>>
  ELSE <<"/">> \o Head(segs) \o RenderSegs(Tail(segs))

Render(p) ==
  IF p.segs = <<>> THEN (IF p.abs THEN <<"/">> ELSE <<".">>)
  ELSE IF p.abs THEN RenderSegs(p.segs)
  ELSE Tail(RenderSegs(p.segs))

\* strings.HasPrefix
HasPrefix(s, prefix) ==
  Len(prefix) <= Len(s) /\ SubSeq(s, 1, Len(prefix)) = prefix

\* filepath.Match restricted to literals and '*': '*' never matches a
\* separator, so pattern and name match segment by segment.
RECURSIVE MatchSeg(_, _)
MatchSeg(pat, name) ==
  IF pat = <<>> THEN name = <<>>
  ELSE IF Head(pat) = "*"
    THEN MatchSeg(Tail(pat), name)
         \/ (name # <<>> /\ MatchSeg(pat, Tail(name)))
  ELSE name # <<>> /\ Head(name) = Head(pat)
       /\ MatchSeg(Tail(pat), Tail(name))

Match(pattern, path) ==
  /\ Len(pattern) = Len(path)
  /\ \A k \in 1..Len(path) : MatchSeg(pattern[k], path[k])


RECURSIVE Alt(_)
Alt(n) == IF n <= 0 THEN <<>> ELSE Append(Alt(n - 1), (n - 1) % 2)

\* ------------------------------------------------------------ the world
\* api.go: the three typed, non-transient errors
ErrAuthentication == "ErrAuthentication"
ErrForbidden == "ErrForbidden"
ErrNotFound == "ErrNotFound"

\* An error value: the sentinels errors.Is finds in its chain, whether
\* errors.As finds a net.Error in it (and that error's Timeout/Temporary),
\* and the fragments of its message the program looks for or prints.
MkErr(is, net, timeout, temporary, text) ==
  [nil |-> FALSE, is |-> is, net |-> net, timeout |-> timeout,
   temporary |-> temporary, text |-> text, entries |-> <<>>]

\* the nil error
NilErr ==
  [nil |-> TRUE, is |-> {}, net |-> FALSE, timeout |-> FALSE,
   temporary |-> FALSE, text |-> {}, entries |-> <<>>]

\* handleAPIError: 401, 403, 404 and any other unexpected status
ApiError(status) ==
  IF status = 401 THEN MkErr({ErrAuthentication}, FALSE, FALSE, FALSE, {"401"})
  ELSE IF status = 403 THEN MkErr({ErrForbidden}, FALSE, FALSE, FALSE, {"403"})
  ELSE IF status = 404 THEN MkErr({ErrNotFound}, FALSE, FALSE, FALSE, {"404"})
  ELSE MkErr({}, FALSE, FALSE, FALSE, {"unexpected status code"})

\* a socket read that timed out (net.Error, "... i/o timeout")
ErrNetTimeout == MkErr({}, TRUE, TRUE, TRUE, {"i/o timeout"})

\* SafeIdleTimeoutReader.Read on its deadline: context.DeadlineExceeded,
\* which is a net.Error (Timeout and Temporary) reading
\* "context deadline exceeded"
ErrIdleTimeout == MkErr({}, TRUE, TRUE, TRUE, {"context deadline exceeded"})

\* fmt.Sprintf("... %v", err) / fmt.Errorf("... %s", ...): only the text
\* of the error survives, the chain is gone
Flatten(err, prefix) ==
  MkErr({}, FALSE, FALSE, FALSE, err.text \cup {prefix})

\* fmt.Errorf("...: %w", err): the chain and the text are kept
Wrap(err, prefix) == [err EXCEPT !.text = @ \cup {prefix}]

\* names used by the manifest universe
NameAJ == <<"a", ".", "j">>
NameMB == <<"m", ".", "b">>
NameD == <<"d">>
NameCT == <<"c", ".", "t">>
NameX == <<"x">>

\* RepoInfo.ID "o/r"
RepoID == << <<"o">>, <<"r">> >>

\* strings.ReplaceAll(repoID, "/", "_") as one path segment
RECURSIVE ReplaceSlash(_)
ReplaceSlash(segs) ==
  IF Len(segs) = 0 THEN <<>>
  ELSE IF Len(segs) = 1 THEN Head(segs)
  ELSE Head(segs) \o <<"_">> \o ReplaceSlash(Tail(segs))

\* a directory next to the flattened repository folder whose name
\* starts with the folder's name ("o_r2")
SiblingDir == ReplaceSlash(RepoID) \o <<"2">>

HFFile(type, path, size, isLFS, oid) ==
  [Type |-> type, Path |-> path, Size |-> size,
   LFS |-> [IsLFS |-> isLFS, Oid |-> oid]]

\* manifest entries: a regular file, a large object of 2 MiB, a
\* directory, a file in it, a path that leaves the destination, and a
\* path into the directory next to it
FileAJ == HFFile("file", <<NameAJ>>, 1, FALSE, NoChecksum)
FileMB == HFFile("file", <<NameMB>>, 2 * MiB, TRUE, Sha256(Alt(2 * MiB)))
FileD == HFFile("directory", <<NameD>>, 0, FALSE, NoChecksum)
FileCT == HFFile("file", <<NameD, NameCT>>, 1, FALSE, NoChecksum)
FileEscape == HFFile("file", <<DotDot, NameX>>, 1, FALSE, NoChecksum)
FileSibling == HFFile("file", <<DotDot, SiblingDir, NameX>>, 1, FALSE, NoChecksum)

\* the entries the plan-building runs draw from
PlanUniverse == <<FileAJ, FileMB, FileD, FileCT, FileEscape, FileSibling>>

\* the entries the plan-and-execute runs draw from
ExecUniverse == <<FileAJ, FileMB, FileD, FileSibling>>

\* the sub-sequences of universe u with at most n entries
RECURSIVE Pick(_, _, _)
Pick(u, from, n) ==
  IF n = 0 \/ from > Len(u) THEN {<<>>}
  ELSE Pick(u, from + 1, n)
       \cup {<<u[from]>> \o rest : rest \in Pick(u, from + 1, n - 1)}

Manifests(u) == Pick(u, 1, MaxFiles)

\* include/exclude configurations ("*.j", "a.j")
PatStarJ == << <<"*", ".", "j">> >>
PatAJ == << NameAJ >>

FilterConfigs ==
  { [inc |-> <<>>, exc |-> <<>>],
    [inc |-> <<PatStarJ>>, exc |-> <<>>],
    [inc |-> <<PatStarJ>>, exc |-> <<PatAJ>>],
    [inc |-> <<>>, exc |-> <<PatStarJ>>] }


\* the content the manifest describes: Size bytes, and for a large
\* object the bytes its oid is the digest of
Origin(f) == Alt(f.Size)

\* the same length, another first byte
Flip(c) == IF c = <<>> THEN c ELSE <<1 - c[1]>> \o Tail(c)

\* what a local path may hold before the program runs
DiskChoices(f) ==
  {NoFile, Origin(f), Flip(Origin(f)), Origin(f) \o <<0>>}

\* what the content server may send for a manifest entry
ServedBodies(f) ==
  {Origin(f), Flip(Origin(f)), Origin(f) \o <<0>>,
   SubSeq(Origin(f), 1, f.Size - 1)}

\* ---------------------------------------------------------------- state
VARIABLES
  d,               \* the Downloader's options (set by New and its Options)
  repo,            \* *RepoInfo handed to BuildPlan
  disk,            \* local files: absolute path -> content or NoFile
  ctxDone,         \* the context passed to BuildPlan is cancelled
  pc,              \* position of the caller: BuildPlan / ExecutePlan loops
  idx,             \* loop index of the running BuildPlan or ExecutePlan
  plan,            \* *DownloadPlan being built / executed
  planErr,         \* error returned by BuildPlan
  progressCalls,   \* sendProgress calls of the running BuildPlan/ExecutePlan
  downloadErrors,  \* ExecutePlan's local downloadErrors
  execResult,      \* error returned by ExecutePlan
  written,         \* absolute paths ExecutePlan created or truncated
  attempted,       \* paths passed to downloadFile, in call order
  round,           \* 1: first BuildPlan/ExecutePlan, 2: BuildPlan again
  firstPlan        \* the plan the first BuildPlan returned

planVars == <<d, repo, disk, ctxDone, pc, idx, plan, planErr, progressCalls,
              downloadErrors, execResult, written, attempted, round,
              firstPlan>>

\* one transfer (downloadSingleThreaded or downloadMultiThreaded) in steps
VARIABLES
  xf,              \* the call: [mode, size, n, body, cap]; cap -1: d.Progress nil
  w,               \* chunk workers 0..n-1: [pc, rest, newTotal]
  downloadedBytes, \* the shared atomic counter of the file
  lastUpdated,     \* progressState: filepath -> lastUpdated; -1 is the zero time
  mutex,           \* holder of d.progressMutex, -1 when free
  now,             \* the clock, in ms
  chan,            \* d.Progress: the events buffered in the channel
  delivered,       \* every event the channel accepted, in order
  dropped,         \* every event the select discarded, in order
  tmp,             \* chunk files in tmpDir: index -> content or NoFile
  dest,            \* the destination file: content or NoFile
  mpc,             \* the goroutine running the transfer: wait, merge, done
  mi,              \* mergeFiles' loop index
  xerr             \* the transfer's error result

xferVars == <<xf, w, downloadedBytes, lastUpdated, mutex, now, chan,
              delivered, dropped, tmp, dest, mpc, mi, xerr>>

\* cliApp.run from "Starting download..." on
VARIABLES
  maxRetries,      \* the -max-retries flag
  ri,              \* the retry loop's i
  lastErr,         \* run's lastErr
  rlog,            \* what the loop did, in order: "sleep" and "call" events
  rpc,             \* position in run: loop, sleep, call, after, returned
  runResult        \* the error run returns

retryVars == <<maxRetries, ri, lastErr, rlog, rpc, runResult>>

\* one verifyLocalFile call followed step by step
VARIABLES
  vf               \* [pc, file, local, skipSHA, disableProgress, reason, err,
                   \*  hashed, calls]

verifyVars == <<vf>>

\* cliApp.run between BuildPlan and the retry loop
VARIABLES
  cli              \* [pc, quietFlag, force, isTerminal, quiet, input]

cliVars == <<cli>>

\* one SafeIdleTimeoutReader.Read call
VARIABLES
  rd               \* [pc, g, p, res, resultCh, done, elapsed, case, ret, first]

readerVars == <<rd>>

vars == <<planVars, xferVars, retryVars, verifyVars, cliVars, readerVars>>

\* --------------------------------------------------------- plan building
\* Downloader.getModelPath
getModelPath(dd, repoID) ==
  LET modelFolderName ==
        IF dd.useTreeStructure THEN repoID ELSE <<ReplaceSlash(repoID)>>
  IN Join(dd.destinationBasePath, modelFolderName)

\* Downloader.flattenTree
RECURSIVE flattenTree(_)
flattenTree(files) ==
  IF files = <<>> THEN <<>>
  ELSE IF Head(files).Type # "directory"
    THEN <<Head(files)>> \o flattenTree(Tail(files))
  ELSE flattenTree(Tail(files))

\* a filter in which an include match is decided first, so that it wins
\* over an exclude match
shouldDownloadIncludeFirst(dd, path) ==
  IF \E k \in DOMAIN dd.includePatterns : Match(dd.includePatterns[k], path)
    THEN TRUE
  ELSE IF \E k \in DOMAIN dd.excludePatterns : Match(dd.excludePatterns[k], path)
    THEN FALSE
  ELSE Len(dd.includePatterns) = 0

\* Downloader.shouldDownload
shouldDownload(dd, path) ==
  IF \E k \in DOMAIN dd.excludePatterns : Match(dd.excludePatterns[k], path)
    THEN FALSE
  ELSE IF Len(dd.includePatterns) = 0 THEN TRUE
  ELSE \E k \in DOMAIN dd.includePatterns : Match(dd.includePatterns[k], path)

\* os.Stat / os.Open on the modelled disk
DiskAt(dsk, p) == IF p \in DOMAIN dsk THEN dsk[p] ELSE NoFile

\* local states in which the file cannot be examined: os.Stat fails for a
\* reason other than "not exist"; a file of content c that cannot be
\* opened; a file of content c whose reading fails
StatError == <<-2>>
OpenDenied(c) == <<-3>> \o c
ReadBroken(c) == <<-4>> \o c

OpenFails(local) == local # <<>> /\ Head(local) = -3
ReadBreaks(local) == local # <<>> /\ Head(local) = -4

\* info.Size() and the bytes of the local file
LocalBytes(local) ==
  IF OpenFails(local) \/ ReadBreaks(local) THEN Tail(local) ELSE local

LocalSize(local) == Len(LocalBytes(local))

\* a check that hashes before it looks at the size
verifyLocalFileHashFirst(dd, dsk, localPath, remoteFile) ==
  LET local == DiskAt(dsk, Abs(localPath)) IN
  IF local = NoFile THEN <<"missing", "not exist">>
  ELSE IF local = StatError THEN <<"stat error", "stat error">>
  ELSE IF remoteFile.LFS.IsLFS /\ ~dd.skipSHA THEN
    IF OpenFails(local) THEN <<"read error", "open error">>
    ELSE IF ReadBreaks(local) THEN <<"hashing error", "failed during hashing">>
    ELSE IF Sha256(LocalBytes(local)) # remoteFile.LFS.Oid
      THEN <<"checksum mismatch", "checksum mismatch">>
    ELSE <<"SHA256 Checksum", Nil>>
  ELSE IF LocalSize(local) # remoteFile.Size
    THEN <<"size mismatch", "size mismatch">>
  ELSE <<"File Size", Nil>>

\* Downloader.verifyLocalFile: <<reason or method, error or Nil>>
verifyLocalFile(dd, dsk, localPath, remoteFile) ==
  LET local == DiskAt(dsk, Abs(localPath)) IN
  IF local = NoFile THEN <<"missing", "not exist">>
  ELSE IF local = StatError THEN <<"stat error", "stat error">>
  ELSE IF LocalSize(local) # remoteFile.Size
    THEN <<"size mismatch", "size mismatch">>
  ELSE IF remoteFile.LFS.IsLFS /\ ~dd.skipSHA THEN
    IF OpenFails(local) THEN <<"read error", "open error">>
    ELSE IF ReadBreaks(local) THEN <<"hashing error", "failed during hashing">>
    ELSE IF Sha256(LocalBytes(local)) # remoteFile.LFS.Oid
      THEN <<"checksum mismatch", "checksum mismatch">>
    ELSE <<"SHA256 Checksum", Nil>>
  ELSE <<"File Size", Nil>>

\* a validity test with the error test the wrong way round
isLocalFileValidNegated(dd, dsk, localPath, remoteFile) ==
  LET r == verifyLocalFile(dd, dsk, localPath, remoteFile)
  IN <<r[2] # Nil, r[1]>>

\* Downloader.isLocalFileValid
isLocalFileValid(dd, dsk, localPath, remoteFile) ==
  LET r == verifyLocalFile(dd, dsk, localPath, remoteFile)
  IN <<r[2] = Nil, r[1]>>

\* the containment test of processFileForPlan
InsideDestination(absFullPath, absModelPath) ==
  HasPrefix(Render(absFullPath), Render(absModelPath))

Call(filepath, state, current, total, msg) ==
  [Filepath |-> filepath, State |-> state, CurrentSize |-> current,
   TotalSize |-> total, Message |-> msg]

\* the sendProgress calls of verifyLocalFile(localPath, remoteFile, false):
\* none unless the file is hashed; else the Verifying event at 0 and the
\* progressReader's event for the bytes read (the file is read in one Read)
VerifyingCalls(dd, dsk, localPath, remoteFile) ==
  LET local == DiskAt(dsk, Abs(localPath)) IN
  IF local \in {NoFile, StatError} \/ LocalSize(local) # remoteFile.Size
     \/ ~(remoteFile.LFS.IsLFS /\ ~dd.skipSHA) \/ OpenFails(local)
    THEN <<>>
  ELSE <<Call(remoteFile.Path, "Verifying", 0, remoteFile.Size, "")>>
       \o (IF ReadBreaks(local) \/ LocalBytes(local) = <<>> THEN <<>>
           ELSE <<Call(remoteFile.Path, "Verifying", LocalSize(local),
                       remoteFile.Size, "")>>)

\* a plan builder in which force does not override a valid local file
processFileForPlanNoForce(dd, dsk, modelPath, file, pl, calls) ==
  IF ~shouldDownload(dd, file.Path) THEN
    [plan |-> pl,
     calls |-> Append(calls, Call(file.Path, "Verified", file.Size, file.Size, "filtered"))]
  ELSE
    LET fullPath == Join(modelPath, file.Path)
        v == isLocalFileValid(dd, dsk, fullPath, file)
        checked == calls \o VerifyingCalls(dd, dsk, fullPath, file)
    IN
    IF ~InsideDestination(Abs(fullPath), Abs(modelPath)) THEN
      [plan |-> pl, calls |-> calls]
    ELSE IF v[1] THEN
      [plan |-> [pl EXCEPT !.FilesToSkip =
                   Append(@, [File |-> file, Reason |-> v[2]])],
       calls |-> Append(checked, Call(file.Path, "Verified", file.Size, file.Size, v[2]))]
    ELSE
      [plan |-> [pl EXCEPT !.FilesToDownload =
                   Append(@, [File |-> file,
                              Reason |-> IF dd.forceRedownload
                                           THEN "forced re-download" ELSE v[2]])],
       calls |-> Append(checked, Call(file.Path, "Verified", file.Size, file.Size, v[2]))]

\* Downloader.processFileForPlan: the plan and the progress calls after it
processFileForPlan(dd, dsk, modelPath, file, pl, calls) ==
  IF ~shouldDownload(dd, file.Path) THEN
    [plan |-> pl,
     calls |-> Append(calls, Call(file.Path, "Verified", file.Size, file.Size, "filtered"))]
  ELSE
    LET fullPath == Join(modelPath, file.Path) IN
    IF ~InsideDestination(Abs(fullPath), Abs(modelPath)) THEN
      [plan |-> pl, calls |-> calls]
    ELSE IF dd.forceRedownload THEN
      [plan |-> [pl EXCEPT !.FilesToDownload =
                   Append(@, [File |-> file, Reason |-> "forced re-download"])],
       calls |-> Append(calls, Call(file.Path, "Verified", file.Size, file.Size, "forced"))]
    ELSE
      LET v == isLocalFileValid(dd, dsk, fullPath, file)
          checked == calls \o VerifyingCalls(dd, dsk, fullPath, file)
      IN
      IF v[1] THEN
        [plan |-> [pl EXCEPT !.FilesToSkip =
                     Append(@, [File |-> file, Reason |-> v[2]])],
         calls |-> Append(checked, Call(file.Path, "Verified", file.Size, file.Size, v[2]))]
      ELSE
        [plan |-> [pl EXCEPT !.FilesToDownload =
                     Append(@, [File |-> file, Reason |-> v[2]])],
         calls |-> Append(checked, Call(file.Path, "Verified", file.Size, file.Size, v[2]))]

\* the Repo of the nil plan BuildPlan returns with an error
NilRepo == [ID |-> <<>>, Siblings |-> <<>>]

EmptyPlan(r) ==
  [Repo |-> r, FilesToDownload |-> <<>>, TotalDownloadSize |-> 0,
   FilesToSkip |-> <<>>, TotalSkipSize |-> 0]

\* a loop that never looks at the context
CancellationIgnored(done) == FALSE

\* BuildPlan: select { case <-ctx.Done(): ...; default: }
CancellationSeen(done) == done

\* BuildPlan, one turn of its loop over allFiles: the cancellation check,
\* then processFileForPlan
PlanFile ==
  /\ pc = "BuildPlan"
  /\ idx <= Len(flattenTree(repo.Siblings))
  /\ IF CancellationSeen(ctxDone)
       THEN /\ pc' = "BuildPlanFailed"
            /\ plan' = EmptyPlan(NilRepo)
            /\ planErr' = "context canceled"
            /\ UNCHANGED <<idx, progressCalls>>
       ELSE LET r == processFileForPlan(d, disk, getModelPath(d, repo.ID),
                       flattenTree(repo.Siblings)[idx], plan, progressCalls)
            IN /\ plan' = r.plan
               /\ progressCalls' = r.calls
               /\ idx' = idx + 1
               /\ UNCHANGED <<pc, planErr>>
  /\ UNCHANGED <<d, repo, disk, ctxDone, downloadErrors, execResult, written,
                 attempted, round, firstPlan>>
  /\ UNCHANGED <<xferVars, retryVars, verifyVars, cliVars, readerVars>>

\* BuildPlan after the loop: the two totals, then return plan, nil
PlanFinish ==
  /\ pc = "BuildPlan"
  /\ idx > Len(flattenTree(repo.Siblings))
  /\ plan' = [plan EXCEPT
                !.TotalDownloadSize = @ + SumSizes(plan.FilesToDownload),
                !.TotalSkipSize = @ + SumSizes(plan.FilesToSkip)]
  /\ firstPlan' = IF round = 1 THEN plan' ELSE firstPlan
  /\ pc' = "planned"
  /\ UNCHANGED <<d, repo, disk, ctxDone, idx, planErr, progressCalls,
                 downloadErrors, execResult, written, attempted, round>>
  /\ UNCHANGED <<xferVars, retryVars, verifyVars, cliVars, readerVars>>

\* the caller cancels the context while BuildPlan runs
Cancel ==
  /\ pc = "BuildPlan"
  /\ ~ctxDone
  /\ ctxDone' = TRUE
  /\ UNCHANGED <<d, repo, disk, pc, idx, plan, planErr, progressCalls,
                 downloadErrors, execResult, written, attempted, round,
                 firstPlan>>
  /\ UNCHANGED <<xferVars, retryVars, verifyVars, cliVars, readerVars>>

\* the caller cancels the context while ExecutePlan is between two files
ExecCancel ==
  /\ pc = "ExecutePlan"
  /\ ~ctxDone
  /\ ctxDone' = TRUE
  /\ UNCHANGED <<d, repo, disk, pc, idx, plan, planErr, progressCalls,
                 downloadErrors, execResult, written, attempted, round,
                 firstPlan>>
  /\ UNCHANGED <<xferVars, retryVars, verifyVars, cliVars, readerVars>>

\* ------------------------------------------------------- transfer engine
\* what the network and the servers do for one downloadFile call:
\*   "resolve": resolveDownloadURL gets `status` (handleAPIError)
\*   "early":   a failure before the destination is created (client.Do,
\*              a non-2xx status, MkdirAll, os.Create) with error `err`
\*   "read":    the body breaks off after `body` with error `err`
\*   "ok":      the server sends `body` completely
Outcome(kind, status, body, err) ==
  [kind |-> kind, status |-> status, body |-> body, err |-> err]

Outcomes(f) ==
  {Outcome("resolve", st, <<>>, NilErr) : st \in {401, 403, 404, 500}}
    \cup {Outcome("early", 0, <<>>, e) : e \in {ApiError(500), ErrNetTimeout}}
    \cup {Outcome("read", 200, SubSeq(Origin(f), 1, f.Size - 1), e) :
            e \in {ErrNetTimeout, ErrIdleTimeout}}
    \cup {Outcome("ok", 200, b, NilErr) : b \in ServedBodies(f)}

\* client.Do on a request whose context is cancelled: a *url.Error (a
\* net.Error, neither timeout nor temporary) around context.Canceled
ErrCanceled == MkErr({}, TRUE, FALSE, FALSE, {"context canceled"})

\* a client that goes on serving a request whose context is cancelled
RoundTripsUncancelled(cancelled, f) == Outcomes(f)

\* what the requests of one downloadFile call can meet: every request is
\* made with http.NewRequestWithContext(ctx, ...), so under a cancelled
\* context the first one, in resolveDownloadURL, fails in client.Do
RoundTrips(cancelled, f) ==
  IF cancelled THEN {Outcome("early", 0, <<>>, ErrCanceled)} ELSE Outcomes(f)

\* a branch that sends every large object down the multi-stream path
UseSingleThreadedNoThreshold(dd, file) == ~file.LFS.IsLFS

\* a threshold that sends a file of exactly numConnections MiB down the
\* single-stream path
UseSingleThreadedInclusive(dd, file) ==
  ~file.LFS.IsLFS \/ file.Size <= dd.numConnections * MiB

\* the size threshold of downloadFile
UseSingleThreaded(dd, file) ==
  ~file.LFS.IsLFS \/ file.Size < dd.numConnections * MiB

\* chunks of the rounded-up size
ChunkStartCeil(size, n, i) == i * ((size + n - 1) \div n)

\* the byte range of chunk i (0-based) in downloadMultiThreaded
ChunkStart(size, n, i) == i * (size \div n)

\* every chunk, the last one too, ends after chunkSize bytes
ChunkEndEven(size, n, i) == ChunkStart(size, n, i) + (size \div n) - 1

ChunkEnd(size, n, i) ==
  IF i = n - 1 THEN size - 1
  ELSE ChunkStart(size, n, i) + (size \div n) - 1

\* the body of the answer to "Range: bytes=start-end" (0-based,
\* inclusive); the caller handles start >= Len(body) (status 416)
RangeBody(body, start, end) ==
  SubSeq(body, start + 1, (IF end + 1 < Len(body) THEN end + 1 ELSE Len(body)))

RangeSatisfiable(body, start) == start < Len(body)

\* mergeFiles: the chunk files written one after the other, by index
mergeFiles(chunks) == Concat(chunks)

\* downloadMultiThreaded against a server holding `body`:
\* <<error or Nil, merged content>>
downloadMultiThreaded(body, size, n) ==
  IF \E i \in 0..(n - 1) : ~RangeSatisfiable(body, ChunkStart(size, n, i))
    THEN <<ApiError(416), <<>>>>
  ELSE <<NilErr, mergeFiles([k \in 1..n |->
            RangeBody(body, ChunkStart(size, n, k - 1), ChunkEnd(size, n, k - 1))])>>

\* downloadSingleThreaded: every byte of the body goes to the file and to
\* the hasher
downloadSingleThreaded(body) == <<Sha256(body), body>>

\* a chunk error met only after mergeFiles has created the destination
ChunkFailureMerged(err) ==
  [checksum |-> NoChecksum, err |-> Wrap(err, "chunk failed"),
   wrote |-> TRUE, content |-> <<>>]

\* downloadMultiThreaded returns the first chunk error it finds in
\* errChan, before mergeFiles is reached
ChunkFailure(err) ==
  [checksum |-> NoChecksum, err |-> Wrap(err, "chunk failed"),
   wrote |-> FALSE, content |-> <<>>]

\* downloadFile under outcome o:
\* [checksum, err, wrote (destination created), content]
downloadFile(dd, file, o) ==
  IF o.kind = "resolve" THEN
    [checksum |-> NoChecksum, err |-> ApiError(o.status), wrote |-> FALSE, content |-> <<>>]
  ELSE IF o.kind = "early" THEN
    [checksum |-> NoChecksum, err |-> o.err, wrote |-> FALSE, content |-> <<>>]
  ELSE IF UseSingleThreaded(dd, file) THEN
    IF o.kind = "read"
      THEN [checksum |-> NoChecksum, err |-> o.err, wrote |-> TRUE, content |-> o.body]
    ELSE LET r == downloadSingleThreaded(o.body)
         IN [checksum |-> r[1], err |-> NilErr, wrote |-> TRUE, content |-> r[2]]
  ELSE
    IF o.kind = "read"
      THEN ChunkFailure(o.err)
    ELSE LET r == downloadMultiThreaded(o.body, file.Size, dd.numConnections)
         IN IF ~r[1].nil
              THEN ChunkFailure(r[1])
            ELSE [checksum |-> NoChecksum, err |-> NilErr, wrote |-> TRUE, content |-> r[2]]

\* one entry of downloadErrors
FileError(file, prefix, text) ==
  [path |-> file.Path, prefix |-> prefix, text |-> text]

\* the aggregate error ExecutePlan returns: fmt.Errorf without %w
AggregateError(errs) ==
  [nil |-> FALSE, is |-> {}, net |-> FALSE, timeout |-> FALSE,
   temporary |-> FALSE,
   text |-> UNION {errs[k].text \cup {errs[k].prefix} : k \in DOMAIN errs},
   entries |-> errs]

\* the inline checksum test of ExecutePlan (checksum is not "")
InlineChecksumFails(dd, file, checksum) ==
  ~dd.skipSHA /\ file.LFS.IsLFS /\ checksum # file.LFS.Oid

\* a loop that stops at the first failed file
NextFileIndexAbort(i, failed, n) == IF failed THEN n + 1 ELSE i + 1

\* where ExecutePlan's loop goes after file i: `continue` after a failure,
\* the end of the loop body after a success
NextFileIndex(i, failed, n) == i + 1

\* ExecutePlan: os.MkdirAll(modelPath); on failure nothing else happens
ExecStart ==
  /\ pc = "planned"
  /\ round = 1
  /\ \E mkdirFails \in BOOLEAN :
       IF mkdirFails
         THEN /\ execResult' =
                   MkErr({}, FALSE, FALSE, FALSE,
                         {"failed to create root model directory"})
              /\ pc' = "executed"
         ELSE /\ pc' = "ExecutePlan"
              /\ UNCHANGED execResult
  /\ idx' = 1
  /\ downloadErrors' = <<>>
  /\ progressCalls' = <<>>
  /\ UNCHANGED <<d, repo, disk, ctxDone, plan, planErr, written, attempted,
                 round, firstPlan>>
  /\ UNCHANGED <<xferVars, retryVars, verifyVars, cliVars, readerVars>>

\* a plan whose download total is reduced by a file that was handled
PlanAfterFileConsumed(pl, file) ==
  [pl EXCEPT !.TotalDownloadSize = @ - file.Size - 1]

\* the plan after one turn of the loop: the loop ranges over
\* plan.FilesToDownload by value and assigns to no field of the plan
PlanAfterFile(pl, file) == pl

\* ExecutePlan, one turn of its loop over plan.FilesToDownload
ExecFile ==
  /\ pc = "ExecutePlan"
  /\ idx <= Len(plan.FilesToDownload)
  /\ LET file == plan.FilesToDownload[idx].File
         modelPath == getModelPath(d, plan.Repo.ID)
         fullPath == Join(modelPath, file.Path)
     IN \E o \in RoundTrips(ctxDone, file) :
          LET r == downloadFile(d, file, o)
              disk1 == IF r.wrote
                         THEN [disk EXCEPT ![Abs(fullPath)] = r.content]
                         ELSE disk
              complete == Call(file.Path, "Complete", file.Size, file.Size, "Verifying...")
          IN /\ attempted' = Append(attempted, file.Path)
             /\ disk' = disk1
             /\ written' = IF r.wrote THEN written \cup {Abs(fullPath)} ELSE written
             /\ IF ~r.err.nil THEN
                  /\ downloadErrors' = Append(downloadErrors,
                       FileError(file, "failed to download", r.err.text))
                  /\ UNCHANGED progressCalls
                ELSE IF r.checksum # NoChecksum THEN
                  IF InlineChecksumFails(d, file, r.checksum) THEN
                    /\ downloadErrors' = Append(downloadErrors,
                         FileError(file, "validation failed", {"checksum mismatch"}))
                    /\ progressCalls' = Append(progressCalls, complete)
                  ELSE
                    /\ progressCalls' = progressCalls \o <<complete,
                         Call(file.Path, "Verified", file.Size, file.Size, "On-the-fly SHA256")>>
                    /\ UNCHANGED downloadErrors
                ELSE
                  LET v == verifyLocalFile(d, disk1, fullPath, file) IN
                  IF v[2] # Nil THEN
                    /\ downloadErrors' = Append(downloadErrors,
                         FileError(file, "validation failed", {v[2]}))
                    /\ progressCalls' = Append(progressCalls, complete)
                  ELSE
                    /\ progressCalls' = progressCalls \o <<complete,
                         Call(file.Path, "Verified", file.Size, file.Size, v[1])>>
                    /\ UNCHANGED downloadErrors
  /\ idx' = NextFileIndex(idx, downloadErrors' # downloadErrors,
                          Len(plan.FilesToDownload))
  /\ plan' = PlanAfterFile(plan, plan.FilesToDownload[idx].File)
  /\ UNCHANGED <<d, repo, ctxDone, pc, planErr, execResult, round,
                 firstPlan>>
  /\ UNCHANGED <<xferVars, retryVars, verifyVars, cliVars, readerVars>>

\* ExecutePlan after the loop: the aggregate error, or nil
ExecFinish ==
  /\ pc = "ExecutePlan"
  /\ idx > Len(plan.FilesToDownload)
  /\ execResult' = IF Len(downloadErrors) > 0
                     THEN AggregateError(downloadErrors) ELSE NilErr
  /\ pc' = "executed"
  /\ UNCHANGED <<d, repo, disk, ctxDone, idx, plan, planErr, progressCalls,
                 downloadErrors, written, attempted, round, firstPlan>>
  /\ UNCHANGED <<xferVars, retryVars, verifyVars, cliVars, readerVars>>

\* the caller runs BuildPlan again on the same repository and options
Replan ==
  /\ pc = "executed"
  /\ round = 1
  /\ round' = 2
  /\ pc' = "BuildPlan"
  /\ idx' = 1
  /\ plan' = EmptyPlan(repo)
  /\ progressCalls' = <<>>
  /\ UNCHANGED <<d, repo, disk, ctxDone, planErr, downloadErrors, execResult,
                 written, attempted, firstPlan>>
  /\ UNCHANGED <<xferVars, retryVars, verifyVars, cliVars, readerVars>>

\* ------------------------------------------------------ progress sink
ThrottleInterval == 100

\* a throttle that spares no state: every update sent soon after another
\* one is suppressed
ThrottledAlways(state, current, total, last, t) ==
  last # -1 /\ t - last < ThrottleInterval

\* sendProgress: the test that suppresses an update. `last` is the
\* file's lastUpdated (-1: zero), `t` the time of the call
Throttled(state, current, total, last, t) ==
  LET isFinalState == state \in {"Complete", "Verified"}
      isDownloadComplete == state = "Downloading" /\ current = total
  IN ~isFinalState /\ ~isDownloadComplete /\ last # -1
     /\ t - last < ThrottleInterval

\* a send without a default case: ready only if the channel has room
SelectBlocks(ch, cap) == Len(ch) < cap

\* sendProgress: the select has a default case, so it is ready to run
\* whatever the state of the channel
SelectReady(ch, cap) == TRUE

\* sendProgress: select { case d.Progress <- update: default: }
TrySend(ch, cap, update) ==
  IF Len(ch) < cap THEN Append(ch, update) ELSE ch

\* ------------------------------------------------- one transfer in steps
Workers == 0..(xf.n - 1)

\* the path the transferred file has in its progress events
XferPath == <<NameMB>>

\* the path of another file the same Downloader reports on
OtherPath == <<NameAJ>>

ProgressPaths == {XferPath, OtherPath}

\* one progressState shared by all files
StateKeyShared(filepath) == OtherPath

\* d.progressState[filepath]: the key of a file's state tracker
StateKey(filepath) == filepath

\* d.progressState == nil: no file has a lastUpdated
NoProgressState == [p \in ProgressPaths |-> -1]

Worker(p, rest, newTotal) == [pc |-> p, rest |-> rest, newTotal |-> newTotal]

\* errChan: the chunk errors sent so far; nothing is received from it
\* before wg.Wait() has returned
ErrChanLen(ws) == Cardinality({i \in DOMAIN ws : ws[i].pc = "failed"})

\* an error channel without a buffer
ErrChanUnbuffered(n) == 0

\* errChan := make(chan error, d.numConnections)
ErrChanCap(n) == n

\* where a worker is after its download has failed: downloadSingleThreaded
\* returns the error; a chunk goroutine sends it on errChan and ends, or
\* stays blocked in the send when the channel cannot take it
ReportChunkError(ws, mode, n) ==
  IF mode = "single" \/ ErrChanLen(ws) < ErrChanCap(n) THEN "failed"
  ELSE "blocked"

\* downloadChunk / downloadSingleThreaded up to os.Create: the request is
\* sent and answered; a failed request, a non-2xx status (416 for a range
\* that starts past the end of the body) or a failed os.Create ends the
\* worker with an error
Request(i) ==
  /\ mpc = "wait"
  /\ w[i].pc = "start"
  /\ \E fails \in BOOLEAN :
       LET start == ChunkStart(xf.size, xf.n, i)
           end == ChunkEnd(xf.size, xf.n, i)
       IN IF fails \/ (xf.mode = "multi" /\ ~RangeSatisfiable(xf.body, start))
            THEN /\ w' = [w EXCEPT ![i].pc = ReportChunkError(w, xf.mode, xf.n)]
                 /\ UNCHANGED <<tmp, dest>>
          ELSE IF xf.mode = "multi"
            THEN /\ w' = [w EXCEPT ![i] = Worker("copy", RangeBody(xf.body, start, end), 0)]
                 /\ tmp' = [tmp EXCEPT ![i] = <<>>]
                 /\ UNCHANGED dest
          ELSE /\ w' = [w EXCEPT ![i] = Worker("copy", xf.body, 0)]
               /\ dest' = <<>>
               /\ UNCHANGED tmp
  /\ UNCHANGED <<xf, downloadedBytes, lastUpdated, mutex, now, chan,
                 delivered, dropped, mpc, mi, xerr>>
  /\ UNCHANGED <<planVars, retryVars, verifyVars, cliVars, readerVars>>

\* a counter that each write overwrites with its own byte count
AddStored(counter, k) == k

\* atomic.Int64.Add: the counter after the addition, which is also the
\* value Add returns
Add(counter, k) == counter + k

\* io.Copy hands the next k bytes to progressWriter.Write: they go to the
\* file, then bytesWritten.Add(k) returns the new total
WriteBytes(i) ==
  /\ w[i].pc = "copy"
  /\ w[i].rest # <<>>
  /\ \E k \in 1..Len(w[i].rest) :
       /\ IF xf.mode = "multi"
            THEN /\ tmp' = [tmp EXCEPT ![i] = @ \o SubSeq(w[i].rest, 1, k)]
                 /\ UNCHANGED dest
            ELSE /\ dest' = dest \o SubSeq(w[i].rest, 1, k)
                 /\ UNCHANGED tmp
       /\ downloadedBytes' = Add(downloadedBytes, k)
       /\ w' = [w EXCEPT ![i] = Worker("send",
                   SubSeq(w[i].rest, k + 1, Len(w[i].rest)), downloadedBytes')]
  /\ UNCHANGED <<xf, lastUpdated, mutex, now, chan, delivered, dropped, mpc, mi, xerr>>
  /\ UNCHANGED <<planVars, retryVars, verifyVars, cliVars, readerVars>>

\* a Read of the body fails (idle timeout, connection error): io.Copy
\* returns the error
ReadFails(i) ==
  /\ w[i].pc = "copy"
  /\ w[i].rest # <<>>
  /\ w' = [w EXCEPT ![i].pc = ReportChunkError(w, xf.mode, xf.n)]
  /\ UNCHANGED <<xf, downloadedBytes, lastUpdated, mutex, now, chan,
                 delivered, dropped, tmp, dest, mpc, mi, xerr>>
  /\ UNCHANGED <<planVars, retryVars, verifyVars, cliVars, readerVars>>

\* the body is at its end: io.Copy returns nil, the worker is done
CopyDone(i) ==
  /\ w[i].pc = "copy"
  /\ w[i].rest = <<>>
  /\ w' = [w EXCEPT ![i].pc = "done"]
  /\ UNCHANGED <<xf, downloadedBytes, lastUpdated, mutex, now, chan,
                 delivered, dropped, tmp, dest, mpc, mi, xerr>>
  /\ UNCHANGED <<planVars, retryVars, verifyVars, cliVars, readerVars>>

\* sendProgress: return at once if d.Progress is nil, else take
\* d.progressMutex
SendEnter(i) ==
  /\ w[i].pc = "send"
  /\ IF xf.cap = -1
       THEN /\ w' = [w EXCEPT ![i].pc = "copy"]
            /\ UNCHANGED mutex
       ELSE /\ mutex = -1
            /\ mutex' = i
            /\ w' = [w EXCEPT ![i].pc = "locked"]
  /\ UNCHANGED <<xf, downloadedBytes, lastUpdated, now, chan, delivered, dropped,
                 tmp, dest, mpc, mi, xerr>>
  /\ UNCHANGED <<planVars, retryVars, verifyVars, cliVars, readerVars>>

\* sendProgress under the mutex: the throttle test; the update is either
\* suppressed or lastUpdated is set; the mutex is released either way
SendThrottle(i) ==
  /\ w[i].pc = "locked"
  /\ mutex' = -1
  /\ IF Throttled("Downloading", w[i].newTotal, xf.size,
                  lastUpdated[StateKey(XferPath)], now)
       THEN /\ w' = [w EXCEPT ![i].pc = "copy"]
            /\ UNCHANGED lastUpdated
       ELSE /\ w' = [w EXCEPT ![i].pc = "select"]
            /\ lastUpdated' = [lastUpdated EXCEPT ![StateKey(XferPath)] = now]
  /\ UNCHANGED <<xf, downloadedBytes, now, chan, delivered, dropped, tmp, dest, mpc,
                 mi, xerr>>
  /\ UNCHANGED <<planVars, retryVars, verifyVars, cliVars, readerVars>>

\* sendProgress: the non-blocking send of the update
SendSelect(i) ==
  /\ w[i].pc = "select"
  /\ SelectReady(chan, xf.cap)
  /\ LET update == Call(XferPath, "Downloading", w[i].newTotal, xf.size, "")
     IN /\ chan' = TrySend(chan, xf.cap, update)
        /\ IF chan' # chan
             THEN /\ delivered' = Append(delivered, update)
                  /\ UNCHANGED dropped
             ELSE /\ dropped' = Append(dropped, update)
                  /\ UNCHANGED delivered
  /\ w' = [w EXCEPT ![i].pc = "copy"]
  /\ UNCHANGED <<xf, downloadedBytes, lastUpdated, mutex, now, tmp, dest,
                 mpc, mi, xerr>>
  /\ UNCHANGED <<planVars, retryVars, verifyVars, cliVars, readerVars>>

\* a wait that ends with the first worker
SomeWorkerEnded == \E i \in Workers : w[i].pc \in {"done", "failed"}

\* wg.Wait(): every chunk goroutine has run its deferred wg.Done()
AllWorkersEnded == \A i \in Workers : w[i].pc \in {"done", "failed"}

\* tmpDir does not exist
NoTmpDir == <<>>

\* a return of downloadMultiThreaded that leaves tmpDir as it is
RemoveAllSkipped(dir) == dir

\* defer os.RemoveAll(tmpDir): the directory and all it holds are gone
RemoveAll(dir) == NoTmpDir

\* wg.Wait() returns. downloadSingleThreaded returns its result;
\* downloadMultiThreaded returns the first chunk error (the deferred
\* RemoveAll deletes tmpDir) or calls mergeFiles, whose os.Create makes
\* the destination or fails
WaitReturns ==
  /\ mpc = "wait"
  /\ AllWorkersEnded
  /\ IF \E i \in Workers : w[i].pc = "failed"
       THEN /\ xerr' = TRUE
            /\ mpc' = "done"
            /\ tmp' = IF xf.mode = "multi" THEN RemoveAll(tmp) ELSE tmp
            /\ UNCHANGED dest
       ELSE IF xf.mode = "multi"
         THEN \E createFails \in BOOLEAN :
                IF createFails
                  THEN /\ xerr' = TRUE
                       /\ mpc' = "done"
                       /\ tmp' = RemoveAll(tmp)
                       /\ UNCHANGED dest
                  ELSE /\ mpc' = "merge"
                       /\ dest' = <<>>
                       /\ UNCHANGED <<xerr, tmp>>
       ELSE /\ mpc' = "done"
            /\ UNCHANGED <<xerr, tmp, dest>>
  /\ UNCHANGED <<xf, w, downloadedBytes, lastUpdated, mutex, now, chan,
                 delivered, dropped, mi>>
  /\ UNCHANGED <<planVars, retryVars, verifyVars, cliVars, readerVars>>

\* mergeFiles, one turn of its loop: chunk mi is appended to the
\* destination and removed
MergeChunk ==
  /\ mpc = "merge"
  /\ mi < xf.n
  /\ dest' = dest \o tmp[mi]
  /\ tmp' = [tmp EXCEPT ![mi] = NoFile]
  /\ mi' = mi + 1
  /\ UNCHANGED <<xf, w, downloadedBytes, lastUpdated, mutex, now, chan,
                 delivered, dropped, mpc, xerr>>
  /\ UNCHANGED <<planVars, retryVars, verifyVars, cliVars, readerVars>>

\* mergeFiles, a turn of its loop that fails: os.Open fails (k = 0) or
\* io.Copy breaks off after k bytes; mergeFiles and downloadMultiThreaded
\* return the error
MergeFails ==
  /\ mpc = "merge"
  /\ mi < xf.n
  /\ \E k \in 0..Len(tmp[mi]) : dest' = dest \o SubSeq(tmp[mi], 1, k)
  /\ xerr' = TRUE
  /\ mpc' = "done"
  /\ tmp' = RemoveAll(tmp)
  /\ UNCHANGED <<xf, w, downloadedBytes, lastUpdated, mutex, now, chan,
                 delivered, dropped, mi>>
  /\ UNCHANGED <<planVars, retryVars, verifyVars, cliVars, readerVars>>

\* mergeFiles returns nil; downloadMultiThreaded returns
MergeReturns ==
  /\ mpc = "merge"
  /\ mi = xf.n
  /\ mpc' = "done"
  /\ tmp' = RemoveAll(tmp)
  /\ UNCHANGED <<xf, w, downloadedBytes, lastUpdated, mutex, now, chan,
                 delivered, dropped, dest, mi, xerr>>
  /\ UNCHANGED <<planVars, retryVars, verifyVars, cliVars, readerVars>>

\* ExecutePlan after downloadFile returned nil: the two sendProgress calls
\* of the loop body, Complete and then Verified. mpc says where the
\* goroutine is: <state>Send (before the nil check and the lock),
\* <state>Locked, <state>Select
ReportState ==
  IF mpc \in {"CompleteSend", "CompleteLocked", "CompleteSelect"} THEN "Complete"
  ELSE IF mpc \in {"VerifiedSend", "VerifiedLocked", "VerifiedSelect"} THEN "Verified"
  ELSE "none"

ReportMessage == IF ReportState = "Complete" THEN "Verifying..." ELSE "verified"

\* where ExecutePlan is once the sendProgress call in progress returns:
\* after Complete the file is verified (lines 281-297) and, if that
\* passes, Verified is sent; after Verified the loop body ends
AfterReport(verified) ==
  IF ReportState = "Complete"
    THEN (IF verified THEN "VerifiedSend" ELSE "reported")
    ELSE "reported"

\* ExecutePlan: downloadFile returned nil, sendProgress(Complete) is called
ReportComplete ==
  /\ mpc = "done"
  /\ ~xerr
  /\ mpc' = "CompleteSend"
  /\ UNCHANGED <<xf, w, downloadedBytes, lastUpdated, mutex, now, chan,
                 delivered, dropped, tmp, dest, mi, xerr>>
  /\ UNCHANGED <<planVars, retryVars, verifyVars, cliVars, readerVars>>

\* sendProgress called by ExecutePlan: nil check, Lock
ReportEnter ==
  /\ mpc \in {"CompleteSend", "VerifiedSend"}
  /\ \E verified \in BOOLEAN :
       IF xf.cap = -1
         THEN /\ mpc' = AfterReport(verified)
              /\ UNCHANGED mutex
         ELSE /\ mutex = -1
              /\ mutex' = xf.n
              /\ mpc' = IF ReportState = "Complete" THEN "CompleteLocked"
                        ELSE "VerifiedLocked"
  /\ UNCHANGED <<xf, w, downloadedBytes, lastUpdated, now, chan, delivered,
                 dropped, tmp, dest, mi, xerr>>
  /\ UNCHANGED <<planVars, retryVars, verifyVars, cliVars, readerVars>>

\* sendProgress called by ExecutePlan: throttle test, lastUpdated, Unlock
ReportThrottle ==
  /\ mpc \in {"CompleteLocked", "VerifiedLocked"}
  /\ mutex' = -1
  /\ \E verified \in BOOLEAN :
       IF Throttled(ReportState, xf.size, xf.size,
                    lastUpdated[StateKey(XferPath)], now)
         THEN /\ mpc' = AfterReport(verified)
              /\ UNCHANGED lastUpdated
         ELSE /\ mpc' = IF ReportState = "Complete" THEN "CompleteSelect"
                        ELSE "VerifiedSelect"
              /\ lastUpdated' = [lastUpdated EXCEPT ![StateKey(XferPath)] = now]
  /\ UNCHANGED <<xf, w, downloadedBytes, now, chan, delivered, dropped, tmp,
                 dest, mi, xerr>>
  /\ UNCHANGED <<planVars, retryVars, verifyVars, cliVars, readerVars>>

\* sendProgress called by ExecutePlan: the non-blocking send
ReportSelect ==
  /\ mpc \in {"CompleteSelect", "VerifiedSelect"}
  /\ SelectReady(chan, xf.cap)
  /\ LET update == Call(XferPath, ReportState, xf.size, xf.size, ReportMessage)
     IN /\ chan' = TrySend(chan, xf.cap, update)
        /\ IF chan' # chan
             THEN /\ delivered' = Append(delivered, update)
                  /\ UNCHANGED dropped
             ELSE /\ dropped' = Append(dropped, update)
                  /\ UNCHANGED delivered
  /\ \E verified \in BOOLEAN : mpc' = AfterReport(verified)
  /\ UNCHANGED <<xf, w, downloadedBytes, lastUpdated, mutex, now, tmp, dest,
                 mi, xerr>>
  /\ UNCHANGED <<planVars, retryVars, verifyVars, cliVars, readerVars>>

\* the events of a file that reached the select, sent or discarded
EventsOf(filepath) ==
  SelectSeq(delivered \o dropped, LAMBDA u : u.Filepath = filepath)

\* sendProgress(OtherPath, Verifying, 1, 2, "") called by another
\* goroutine on the same Downloader while the transfer runs: the lock, the
\* throttle test on that file's own state, and the non-blocking send. The
\* call is followed up to the first event of that file that passes
OtherFileSend ==
  /\ mpc = "wait"
  /\ xf.cap # -1
  /\ mutex = -1
  /\ EventsOf(OtherPath) = <<>>
  /\ ~Throttled("Verifying", 1, 2, lastUpdated[StateKey(OtherPath)], now)
  /\ lastUpdated' = [lastUpdated EXCEPT ![StateKey(OtherPath)] = now]
  /\ LET update == Call(OtherPath, "Verifying", 1, 2, "")
     IN /\ chan' = TrySend(chan, xf.cap, update)
        /\ IF chan' # chan
             THEN /\ delivered' = Append(delivered, update)
                  /\ UNCHANGED dropped
             ELSE /\ dropped' = Append(dropped, update)
                  /\ UNCHANGED delivered
  /\ UNCHANGED <<xf, w, downloadedBytes, mutex, now, tmp, dest, mpc, mi, xerr>>
  /\ UNCHANGED <<planVars, retryVars, verifyVars, cliVars, readerVars>>

\* a caller that closes the channel without waiting for ExecutePlan
MayCloseAnytime(m, failed) == m # "closed"

\* cliApp.run reaches close(progressChan) once the retry loop is over: the
\* last ExecutePlan call has returned, with the file reported or failed
MayClose(m, failed) == m = "reported" \/ (m = "done" /\ failed)

\* cliApp.run: if !quiet { close(progressChan); wg.Wait() }
CloseProgress ==
  /\ MayClose(mpc, xerr)
  /\ xf.cap # -1
  /\ mpc' = "closed"
  /\ UNCHANGED <<xf, w, downloadedBytes, lastUpdated, mutex, now, chan,
                 delivered, dropped, tmp, dest, mi, xerr>>
  /\ UNCHANGED <<planVars, retryVars, verifyVars, cliVars, readerVars>>

\* the consumer of the progress channel takes an event
Receive ==
  /\ chan # <<>>
  /\ chan' = Tail(chan)
  /\ UNCHANGED <<xf, w, downloadedBytes, lastUpdated, mutex, now, delivered, dropped,
                 tmp, dest, mpc, mi, xerr>>
  /\ UNCHANGED <<planVars, retryVars, verifyVars, cliVars, readerVars>>

\* time passes
Tick ==
  /\ mpc = "wait"
  /\ now + TickMs <= MaxTime
  /\ now' = now + TickMs
  /\ UNCHANGED <<xf, w, downloadedBytes, lastUpdated, mutex, chan, delivered, dropped,
                 tmp, dest, mpc, mi, xerr>>
  /\ UNCHANGED <<planVars, retryVars, verifyVars, cliVars, readerVars>>

\* --------------------------------------- one verifyLocalFile call in steps
VerifyReturn(reason, err) ==
  vf' = [vf EXCEPT !.pc = "returned", !.reason = reason, !.err = err]

\* os.Stat(localPath)
VerifyStat ==
  /\ vf.pc = "stat"
  /\ IF vf.local = NoFile THEN VerifyReturn("missing", "not exist")
     ELSE IF vf.local = StatError THEN VerifyReturn("stat error", "stat error")
     ELSE vf' = [vf EXCEPT !.pc = "size"]
  /\ UNCHANGED <<planVars, xferVars, retryVars, cliVars, readerVars>>

\* info.Size() != remoteFile.Size, then the test that decides on hashing
VerifySize ==
  /\ vf.pc = "size"
  /\ IF LocalSize(vf.local) # vf.file.Size
       THEN VerifyReturn("size mismatch", "size mismatch")
     ELSE IF vf.file.LFS.IsLFS /\ ~vf.skipSHA
       THEN vf' = [vf EXCEPT !.pc = "open"]
     ELSE VerifyReturn("File Size", Nil)
  /\ UNCHANGED <<planVars, xferVars, retryVars, cliVars, readerVars>>

\* os.Open(localPath), then the Verifying event unless disableProgress
VerifyOpen ==
  /\ vf.pc = "open"
  /\ IF OpenFails(vf.local) THEN VerifyReturn("read error", "open error")
     ELSE vf' = [vf EXCEPT
                   !.pc = "hash",
                   !.calls = IF vf.disableProgress THEN @
                             ELSE Append(@, Call(vf.file.Path, "Verifying", 0,
                                                 vf.file.Size, ""))]
  /\ UNCHANGED <<planVars, xferVars, retryVars, cliVars, readerVars>>

\* io.Copy(hasher, reader) and the comparison with the declared oid
VerifyHash ==
  /\ vf.pc = "hash"
  /\ LET after == [vf EXCEPT
                     !.hashed = TRUE, !.pc = "returned",
                     !.calls = IF vf.disableProgress \/ ReadBreaks(vf.local)
                                  \/ LocalBytes(vf.local) = <<>>
                                 THEN @
                               ELSE Append(@, Call(vf.file.Path, "Verifying",
                                      LocalSize(vf.local), vf.file.Size, ""))] IN
     IF ReadBreaks(vf.local)
       THEN vf' = [after EXCEPT !.reason = "hashing error",
                                !.err = "failed during hashing"]
     ELSE IF Sha256(LocalBytes(vf.local)) # vf.file.LFS.Oid
       THEN vf' = [after EXCEPT !.reason = "checksum mismatch",
                                !.err = "checksum mismatch"]
     ELSE vf' = [after EXCEPT !.reason = "SHA256 Checksum", !.err = Nil]
  /\ UNCHANGED <<planVars, xferVars, retryVars, cliVars, readerVars>>

\* ------------------------------------------------- the CLI's retry loop
\* the classification without the errors.Is test of the typed errors
isTransientErrorUntyped(err) ==
  IF err.nil THEN FALSE
  ELSE IF err.net THEN err.timeout \/ err.temporary
  ELSE "i/o timeout" \in err.text

\* cmd/main.go isTransientError
isTransientError(err) ==
  IF err.nil THEN FALSE
  ELSE IF err.is \cap {ErrAuthentication, ErrForbidden, ErrNotFound} # {} THEN FALSE
  ELSE IF err.net THEN err.timeout \/ err.temporary
  ELSE "i/o timeout" \in err.text

\* a net.Error that is neither a timeout nor temporary
ErrConnRefused == MkErr({}, TRUE, FALSE, FALSE, {"connection refused"})

\* what one ExecutePlan call of the retry loop can return
RetryErrors ==
  {NilErr,
   ApiError(401), ApiError(403), ApiError(404),
   Wrap(ApiError(404), "failed to resolve"),
   [Wrap(ErrNetTimeout, "fetch") EXCEPT !.is = {ErrForbidden}],
   ErrNetTimeout, ErrIdleTimeout, ErrConnRefused,
   Flatten(ErrNetTimeout, "failed to download"),
   Flatten(ApiError(500), "failed to download")}

\* the loop condition i < maxRetries, then the branch on i > 0
RetryLoopHead ==
  /\ rpc = "loop"
  /\ rpc' = IF ri < maxRetries
              THEN (IF ri > 0 THEN "sleep" ELSE "call")
              ELSE "after"
  /\ UNCHANGED <<maxRetries, ri, lastErr, rlog, runResult>>
  /\ UNCHANGED <<planVars, xferVars, verifyVars, cliVars, readerVars>>

\* time.Sleep(retryInterval)
RetrySleep ==
  /\ rpc = "sleep"
  /\ rlog' = Append(rlog, [kind |-> "sleep", plan |-> EmptyPlan(NilRepo),
                           err |-> NilErr])
  /\ rpc' = "call"
  /\ UNCHANGED <<maxRetries, ri, lastErr, runResult>>
  /\ UNCHANGED <<planVars, xferVars, verifyVars, cliVars, readerVars>>

\* lastErr = downloader.ExecutePlan(ctx, plan), then the break test and i++
RetryExecutePlan ==
  /\ rpc = "call"
  /\ \E e \in RetryErrors :
       /\ lastErr' = e
       /\ rlog' = Append(rlog, [kind |-> "call", plan |-> plan, err |-> e])
       /\ IF e.nil \/ ~isTransientError(e)
            THEN /\ rpc' = "after"
                 /\ UNCHANGED ri
            ELSE /\ rpc' = "loop"
                 /\ ri' = ri + 1
  /\ UNCHANGED <<maxRetries, runResult>>
  /\ UNCHANGED <<planVars, xferVars, verifyVars, cliVars, readerVars>>

\* after the loop: run returns lastErr, or nil after logging
\* "Download of ... completed."
RunReturns ==
  /\ rpc = "after"
  /\ runResult' = lastErr
  /\ rpc' = "returned"
  /\ UNCHANGED <<maxRetries, ri, lastErr, rlog>>
  /\ UNCHANGED <<planVars, xferVars, verifyVars, cliVars, readerVars>>

\* ------------------------------------------------------------ cliApp.run
\* a run in which only the -q flag makes the run quiet
QuietModeFlagOnly(quietFlag, force, isTerminal) == quietFlag

\* run: if !app.isTerminal || force { quiet = true }
QuietMode(quietFlag, force, isTerminal) ==
  IF ~isTerminal \/ force THEN TRUE ELSE quietFlag

\* what reader.ReadString('\n') can return (its error is dropped): a line
\* with its newline, the rest of the input at end of file, or nothing
StdinReads ==
  {<<"y", "\n">>, <<"Y", "\n">>, <<" ", "y", "\r", "\n">>, <<"n", "\n">>,
   <<"\n">>, <<"y", "e", "s", "\n">>, <<"y">>, <<>>}

NoInput == <<"-">>

\* unicode.IsSpace on the characters of the inputs
IsSpace(c) == c \in {" ", "\n", "\r", "\t"}

\* strings.ToLower
ToLower(str) ==
  [i \in DOMAIN str |->
     IF str[i] = "Y" THEN "y"
     ELSE IF str[i] = "E" THEN "e"
     ELSE IF str[i] = "S" THEN "s"
     ELSE IF str[i] = "N" THEN "n"
     ELSE str[i]]

\* strings.TrimSpace: leading and trailing white space removed
TrimSpace(str) ==
  LET keep == {i \in DOMAIN str : ~IsSpace(str[i])}
  IN IF keep = {} THEN <<>>
     ELSE LET first == CHOOSE i \in keep : \A j \in keep : i <= j
              last == CHOOSE i \in keep : \A j \in keep : j <= i
          IN SubSeq(str, first, last)

\* strings.TrimSpace(strings.ToLower(input)) == "y"
AnswersYes(input) == TrimSpace(ToLower(input)) = <<"y">>

\* a rewrite that moves the files and leaves the download total as it was
ForcedRedownloadPlanStaleTotal(pl) ==
  [pl EXCEPT
     !.FilesToDownload =
        @ \o [k \in DOMAIN pl.FilesToSkip |->
                [File |-> pl.FilesToSkip[k].File,
                 Reason |-> "forced re-download"]],
     !.FilesToSkip = <<>>,
     !.TotalSkipSize = 0]

\* the plan after "Forcing re-download as requested..."
ForcedRedownloadPlan(pl) ==
  [pl EXCEPT
     !.FilesToDownload =
        @ \o [k \in DOMAIN pl.FilesToSkip |->
                [File |-> pl.FilesToSkip[k].File,
                 Reason |-> "forced re-download"]],
     !.TotalDownloadSize = @ + pl.TotalSkipSize,
     !.FilesToSkip = <<>>,
     !.TotalSkipSize = 0]

\* run returns nil before the retry loop
CliReturnsNil ==
  /\ cli' = [cli EXCEPT !.pc = "returned"]
  /\ rpc' = "returned"
  /\ runResult' = NilErr

\* run after BuildPlan returned a plan: the test on len(plan.FilesToDownload)
\* and, with nothing to download, the test on force and quiet
CliAfterBuildPlan ==
  /\ cli.pc = "BuildPlan"
  /\ pc = "planned"
  /\ IF Len(plan.FilesToDownload) = 0
       THEN IF ~cli.force /\ ~cli.quiet
              THEN /\ cli' = [cli EXCEPT !.pc = "redownloadPrompt"]
                   /\ UNCHANGED <<rpc, runResult>>
              ELSE CliReturnsNil
       ELSE /\ cli' = [cli EXCEPT !.pc = "summary"]
            /\ UNCHANGED <<rpc, runResult>>
  /\ UNCHANGED <<maxRetries, ri, lastErr, rlog>>
  /\ UNCHANGED <<planVars, xferVars, verifyVars, readerVars>>

\* "Would you like to force a re-download anyway? [y/N]: " and the answer
CliRedownloadPrompt ==
  /\ cli.pc = "redownloadPrompt"
  /\ \E input \in StdinReads :
       IF AnswersYes(input)
         THEN /\ plan' = ForcedRedownloadPlan(plan)
              /\ cli' = [cli EXCEPT !.pc = "summary", !.input = input]
              /\ UNCHANGED <<rpc, runResult>>
         ELSE /\ cli' = [cli EXCEPT !.pc = "returned", !.input = input]
              /\ rpc' = "returned"
              /\ runResult' = NilErr
              /\ UNCHANGED plan
  /\ UNCHANGED <<maxRetries, ri, lastErr, rlog>>
  /\ UNCHANGED <<d, repo, disk, ctxDone, pc, idx, planErr, progressCalls,
                 downloadErrors, execResult, written, attempted, round,
                 firstPlan>>
  /\ UNCHANGED <<xferVars, verifyVars, readerVars>>

\* the summary and "Proceed with download? [y/N]: ", both only if !quiet
CliConfirm ==
  /\ cli.pc = "summary"
  /\ IF ~cli.quiet
       THEN \E input \in StdinReads :
              IF ~AnswersYes(input)
                THEN CliReturnsNil
                ELSE /\ cli' = [cli EXCEPT !.pc = "start"]
                     /\ UNCHANGED <<rpc, runResult>>
       ELSE /\ cli' = [cli EXCEPT !.pc = "start"]
            /\ UNCHANGED <<rpc, runResult>>
  /\ UNCHANGED <<maxRetries, ri, lastErr, rlog>>
  /\ UNCHANGED <<planVars, xferVars, verifyVars, readerVars>>

\* "Starting download...": run enters the retry loop
CliStartDownload ==
  /\ cli.pc = "start"
  /\ cli' = [cli EXCEPT !.pc = "retry"]
  /\ rpc' = "loop"
  /\ UNCHANGED <<maxRetries, ri, lastErr, rlog, runResult>>
  /\ UNCHANGED <<planVars, xferVars, verifyVars, readerVars>>

\* ------------------------------------------------------- specification
\* New(repoName, opts...) followed by the caller's BuildPlan call
Downloader(n, skip, force, filters) ==
  [numConnections |-> n, skipSHA |-> skip, forceRedownload |-> force,
   useTreeStructure |-> FALSE,
   destinationBasePath |-> [abs |-> FALSE, segs |-> <<Dot>>],
   includePatterns |-> filters.inc, excludePatterns |-> filters.exc]

LocalPathOf(dd, r, f) == Abs(Join(getModelPath(dd, r.ID), f.Path))

\* the disks that differ only at the manifest's own local paths
Disks(dd, r) ==
  LET files == flattenTree(r.Siblings)
      paths == {LocalPathOf(dd, r, files[k]) : k \in DOMAIN files}
      fileAt(p) == files[CHOOSE k \in DOMAIN files : LocalPathOf(dd, r, files[k]) = p]
      all == UNION {DiskChoices(files[k]) : k \in DOMAIN files}
  IN {dsk \in [paths -> all] :
        \A p \in paths : dsk[p] \in DiskChoices(fileAt(p))}

\* no transfer is being followed step by step
TransferIdle ==
  /\ xf = [mode |-> "single", size |-> 0, n |-> 0, body |-> <<>>, cap |-> -1]
  /\ w = <<>>
  /\ downloadedBytes = 0
  /\ lastUpdated = NoProgressState
  /\ mutex = -1
  /\ now = 0
  /\ chan = <<>>
  /\ delivered = <<>>
  /\ dropped = <<>>
  /\ tmp = <<>>
  /\ dest = NoFile
  /\ mpc = "idle"
  /\ mi = 0
  /\ xerr = FALSE

\* no verifyLocalFile call is being followed step by step
VerifyIdle == vf = [pc |-> "idle"]

\* cliApp.run is not being followed
CliIdle == cli = [pc |-> "idle"]

\* no SafeIdleTimeoutReader.Read call is being followed
ReaderIdle == rd = [pc |-> "idle"]

\* the CLI's retry loop is not running
RetryIdle ==
  /\ maxRetries = 0
  /\ ri = 0
  /\ lastErr = NilErr
  /\ rlog = <<>>
  /\ rpc = "idle"
  /\ runResult = NilErr

\* the downloader is not building or executing a plan
PlanIdle(pl) ==
  /\ d = Downloader(1, FALSE, FALSE, [inc |-> <<>>, exc |-> <<>>])
  /\ repo = pl.Repo
  /\ disk = <<>>
  /\ ctxDone = FALSE
  /\ pc = "idle"
  /\ idx = 1
  /\ plan = pl
  /\ planErr = Nil
  /\ progressCalls = <<>>
  /\ downloadErrors = <<>>
  /\ execResult = NilErr
  /\ written = {}
  /\ attempted = <<>>
  /\ round = 1
  /\ firstPlan = EmptyPlan(NilRepo)

\* the state when the caller is about to call BuildPlan
Start(universe, filterConfigs) ==
  /\ \E n \in 1..MaxConn, skip \in BOOLEAN, force \in BOOLEAN,
        filters \in filterConfigs :
       d = Downloader(n, skip, force, filters)
  /\ \E m \in Manifests(universe) : repo = [ID |-> RepoID, Siblings |-> m]
  /\ disk \in Disks(d, repo)
  /\ ctxDone = FALSE
  /\ pc = "BuildPlan"
  /\ idx = 1
  /\ plan = EmptyPlan(repo)
  /\ planErr = Nil
  /\ progressCalls = <<>>
  /\ downloadErrors = <<>>
  /\ execResult = NilErr
  /\ written = {}
  /\ attempted = <<>>
  /\ round = 1
  /\ firstPlan = EmptyPlan(NilRepo)
  /\ TransferIdle
  /\ RetryIdle
  /\ VerifyIdle
  /\ CliIdle
  /\ ReaderIdle

NoFilters == {[inc |-> <<>>, exc |-> <<>>]}

Init == Start(ExecUniverse, NoFilters)

Next ==
  \/ PlanFile
  \/ PlanFinish
  \/ ExecStart
  \/ ExecFile
  \/ ExecFinish
  \/ Replan

Spec == Init /\ [][Next]_vars

\* one BuildPlan and one ExecutePlan under a context that may be cancelled
\* between two files
NextCancel ==
  \/ PlanFile
  \/ PlanFinish
  \/ ExecStart
  \/ ExecFile
  \/ ExecFinish
  \/ ExecCancel

SpecCancel == Init /\ [][NextCancel]_vars

\* plan building alone, over every filter configuration
InitPlan == Start(PlanUniverse, FilterConfigs)

NextPlan ==
  \/ PlanFile
  \/ PlanFinish
  \/ Cancel

SpecPlan == InitPlan /\ [][NextPlan]_vars

\* one file transfer, step by step: downloadSingleThreaded with its one
\* copy loop, or downloadMultiThreaded with n chunk workers
Iota(k) == [j \in 1..k |-> j - 1]

Transfers ==
  {[mode |-> m, size |-> sz, n |-> n, body |-> Iota(len), cap |-> cap] :
     m \in {"single", "multi"}, sz \in MiB..MaxLen, n \in 1..MaxWorkers,
     len \in 0..(MaxLen + 1), cap \in -1..MaxChan}

InitTransfer ==
  /\ PlanIdle(EmptyPlan(NilRepo))
  /\ RetryIdle
  /\ VerifyIdle
  /\ CliIdle
  /\ ReaderIdle
  /\ xf \in {t \in Transfers :
               /\ t.cap # 0
               /\ Len(t.body) \in {t.size - 1, t.size, t.size + 1}
               /\ IF t.mode = "multi" THEN t.size >= t.n * MiB ELSE t.n = 1}
  /\ w = [i \in 0..(xf.n - 1) |-> Worker("start", <<>>, 0)]
  /\ downloadedBytes = 0
  /\ lastUpdated \in {[NoProgressState EXCEPT ![XferPath] = t] : t \in {-1, 0}}
  /\ mutex = -1
  /\ now = 0
  /\ chan = <<>>
  /\ delivered = <<>>
  /\ dropped = <<>>
  /\ tmp = IF xf.mode = "multi" THEN [i \in 0..(xf.n - 1) |-> NoFile] ELSE NoTmpDir
  /\ dest = NoFile
  /\ mpc = "wait"
  /\ mi = 0
  /\ xerr = FALSE

NextTransfer ==
  \/ \E i \in Workers :
       \/ Request(i)
       \/ WriteBytes(i)
       \/ ReadFails(i)
       \/ CopyDone(i)
       \/ SendEnter(i)
       \/ SendThrottle(i)
       \/ SendSelect(i)
  \/ WaitReturns
  \/ MergeChunk
  \/ MergeFails
  \/ MergeReturns
  \/ OtherFileSend
  \/ ReportComplete
  \/ ReportEnter
  \/ ReportThrottle
  \/ ReportSelect
  \/ Receive
  \/ Tick

SpecTransfer == InitTransfer /\ [][NextTransfer]_vars

\* the producers are scheduled; nothing is assumed of the consumer
FairTransfer ==
  /\ SpecTransfer
  /\ \A i \in 0..(MaxWorkers - 1) :
       /\ WF_vars(i \in Workers /\ SendEnter(i))
       /\ WF_vars(i \in Workers /\ SendThrottle(i))
       /\ WF_vars(i \in Workers /\ SendSelect(i))

\* the goroutine that waits for the workers and merges is scheduled;
\* nothing is assumed of the network, the workers' sends or the consumer
FairCollector ==
  /\ SpecTransfer
  /\ WF_vars(WaitReturns)
  /\ WF_vars(MergeChunk)
  /\ WF_vars(MergeReturns)

\* cliApp.run from "Starting download..." on, for every -max-retries
RetryPlans ==
  {LET entries == [k \in DOMAIN fs |->
                     [File |-> fs[k], Reason |-> "file does not exist"]]
   IN [EmptyPlan([ID |-> RepoID, Siblings |-> fs]) EXCEPT
         !.FilesToDownload = entries,
         !.TotalDownloadSize = SumSizes(entries)] :
     fs \in {<<FileAJ>>, <<FileAJ, FileMB>>}}

InitRetry ==
  /\ \E pl \in RetryPlans : PlanIdle(pl)
  /\ TransferIdle
  /\ VerifyIdle
  /\ CliIdle
  /\ ReaderIdle
  /\ maxRetries \in -1..MaxRetries
  /\ ri = 0
  /\ lastErr = NilErr
  /\ rlog = <<>>
  /\ rpc = "loop"
  /\ runResult = NilErr

NextRetry ==
  \/ RetryLoopHead
  \/ RetrySleep
  \/ RetryExecutePlan
  \/ RunReturns

SpecRetry == InitRetry /\ [][NextRetry]_vars


\* one transfer and ExecutePlan's reports, then the CLI closing the channel
NextClose ==
  \/ NextTransfer
  \/ CloseProgress

SpecClose == InitTransfer /\ [][NextClose]_vars

\* ------------------------------------------------------ New and options
\* numConnections of a Downloader New has just made
DefaultConnections == 5

\* the largest number of options passed to New
MaxOptions == 3

\* a setter that takes any n
WithConnectionsUnchecked(dd, n) == [dd EXCEPT !.numConnections = n]

\* WithConnections(n): if n > 0 { d.numConnections = n }
WithConnections(dd, n) ==
  IF n > 0 THEN [dd EXCEPT !.numConnections = n] ELSE dd

\* WithNumConnections(n): the same test under another name
WithNumConnections(dd, n) == WithConnections(dd, n)

\* the options that write a field of the model's Downloader
Options ==
  {[op |-> o, n |-> k] : o \in {"WithConnections", "WithNumConnections"},
                         k \in -1..MaxConn}
    \cup {[op |-> o, n |-> 0] :
            o \in {"SkipSHACheck", "WithForceRedownload", "WithTreeStructure"}}

\* opt(d)
ApplyOption(dd, o) ==
  IF o.op = "WithConnections" THEN WithConnections(dd, o.n)
  ELSE IF o.op = "WithNumConnections" THEN WithNumConnections(dd, o.n)
  ELSE IF o.op = "SkipSHACheck" THEN [dd EXCEPT !.skipSHA = TRUE]
  ELSE IF o.op = "WithForceRedownload" THEN [dd EXCEPT !.forceRedownload = TRUE]
  ELSE [dd EXCEPT !.useTreeStructure = TRUE]

\* New: for _, opt := range opts { opt(d) }, one turn
NewOption ==
  /\ pc = "New"
  /\ idx <= MaxOptions
  /\ \E o \in Options : d' = ApplyOption(d, o)
  /\ idx' = idx + 1
  /\ UNCHANGED <<repo, disk, ctxDone, pc, plan, planErr, progressCalls,
                 downloadErrors, execResult, written, attempted, round,
                 firstPlan>>
  /\ UNCHANGED <<xferVars, retryVars, verifyVars, cliVars, readerVars>>

\* New: return d
NewReturns ==
  /\ pc = "New"
  /\ pc' = "constructed"
  /\ UNCHANGED <<d, repo, disk, ctxDone, idx, plan, planErr, progressCalls,
                 downloadErrors, execResult, written, attempted, round,
                 firstPlan>>
  /\ UNCHANGED <<xferVars, retryVars, verifyVars, cliVars, readerVars>>

\* New has filled in its defaults and is about to apply the options
InitNew ==
  /\ d = Downloader(DefaultConnections, FALSE, FALSE, [inc |-> <<>>, exc |-> <<>>])
  /\ repo = NilRepo
  /\ disk = <<>>
  /\ ctxDone = FALSE
  /\ pc = "New"
  /\ idx = 1
  /\ plan = EmptyPlan(NilRepo)
  /\ planErr = Nil
  /\ progressCalls = <<>>
  /\ downloadErrors = <<>>
  /\ execResult = NilErr
  /\ written = {}
  /\ attempted = <<>>
  /\ round = 1
  /\ firstPlan = EmptyPlan(NilRepo)
  /\ TransferIdle
  /\ RetryIdle
  /\ VerifyIdle
  /\ CliIdle
  /\ ReaderIdle

NextNew ==
  \/ NewOption
  \/ NewReturns

SpecNew == InitNew /\ [][NextNew]_vars

\* one call of verifyLocalFile, for every local state of the file
LocalStates(f) ==
  DiskChoices(f) \cup {StatError, OpenDenied(Origin(f)), ReadBroken(Origin(f))}

InitVerify ==
  /\ \E f \in {FileAJ, FileMB}, skip \in BOOLEAN :
       /\ d = Downloader(1, skip, FALSE, [inc |-> <<>>, exc |-> <<>>])
       /\ repo = [ID |-> RepoID, Siblings |-> <<f>>]
  /\ \E local \in LocalStates(repo.Siblings[1]) :
       disk = [p \in {LocalPathOf(d, repo, repo.Siblings[1])} |-> local]
  /\ ctxDone = FALSE
  /\ pc = "idle"
  /\ idx = 1
  /\ plan = EmptyPlan(repo)
  /\ planErr = Nil
  /\ progressCalls = <<>>
  /\ downloadErrors = <<>>
  /\ execResult = NilErr
  /\ written = {}
  /\ attempted = <<>>
  /\ round = 1
  /\ firstPlan = EmptyPlan(NilRepo)
  /\ TransferIdle
  /\ RetryIdle
  /\ CliIdle
  /\ ReaderIdle
  /\ \E disableProgress \in BOOLEAN :
       vf = [pc |-> "stat", file |-> repo.Siblings[1],
             local |-> DiskAt(disk, LocalPathOf(d, repo, repo.Siblings[1])),
             skipSHA |-> d.skipSHA, disableProgress |-> disableProgress,
             reason |-> "", err |-> Nil, hashed |-> FALSE, calls |-> <<>>]

NextVerify ==
  \/ VerifyStat
  \/ VerifySize
  \/ VerifyOpen
  \/ VerifyHash

SpecVerify == InitVerify /\ [][NextVerify]_vars

\* cliApp.run from its BuildPlan call on, for every setting of -q and -f,
\* with and without a terminal
CliUniverse == <<FileAJ, FileMB>>

CliFilters == {[inc |-> <<>>, exc |-> <<>>], [inc |-> <<>>, exc |-> <<PatStarJ>>]}

InitCli ==
  /\ \E quietFlag \in BOOLEAN, force \in BOOLEAN, isTerminal \in BOOLEAN :
       /\ cli = [pc |-> "BuildPlan", quietFlag |-> quietFlag, force |-> force,
                 isTerminal |-> isTerminal,
                 quiet |-> QuietMode(quietFlag, force, isTerminal),
                 input |-> NoInput]
       /\ \E filters \in CliFilters : d = Downloader(1, FALSE, force, filters)
  /\ \E m \in Manifests(CliUniverse) : repo = [ID |-> RepoID, Siblings |-> m]
  /\ disk \in Disks(d, repo)
  /\ ctxDone = FALSE
  /\ pc = "BuildPlan"
  /\ idx = 1
  /\ plan = EmptyPlan(repo)
  /\ planErr = Nil
  /\ progressCalls = <<>>
  /\ downloadErrors = <<>>
  /\ execResult = NilErr
  /\ written = {}
  /\ attempted = <<>>
  /\ round = 1
  /\ firstPlan = EmptyPlan(NilRepo)
  /\ TransferIdle
  /\ VerifyIdle
  /\ ReaderIdle
  /\ maxRetries \in 0..MaxRetries
  /\ ri = 0
  /\ lastErr = NilErr
  /\ rlog = <<>>
  /\ rpc = "idle"
  /\ runResult = NilErr

NextCli ==
  \/ PlanFile
  \/ PlanFinish
  \/ CliAfterBuildPlan
  \/ CliRedownloadPrompt
  \/ CliConfirm
  \/ CliStartDownload
  \/ RetryLoopHead
  \/ RetrySleep
  \/ RetryExecutePlan
  \/ RunReturns

SpecCli == InitCli /\ [][NextCli]_vars


\* ============================================ SafeIdleTimeoutReader.Read
\* the idle timeout both transfers give the reader, in seconds
IdleTimeout == 60

\* seconds by which one step of the clock advances
IdleTick == 30

\* readResult before the underlying read has returned
NoResult == [n |-> -1, err |-> Nil]

\* what r.r.Read(p) may return for a buffer of length len
UnderlyingResults(len) ==
  {[n |-> k, err |-> Nil] : k \in 1..len}
    \cup {[n |-> k, err |-> "EOF"] : k \in 0..len}
    \cup {[n |-> 0, err |-> "connection reset by peer"]}

\* return 0, ctx.Err() once the deadline has passed
DeadlineExceeded == [n |-> 0, err |-> "context deadline exceeded"]

\* a channel without a buffer takes a value only from a waiting receiver
CanDeliverUnbuffered(ch, waiting) == waiting

\* resultCh <- readResult{n, err} on make(chan readResult, 1): the send goes
\* through when the buffer has room or a receiver is waiting on the channel
CanDeliver(ch, waiting) == Len(ch) < 1 \/ waiting

\* the cases of the select that can proceed at once
ReadyCases ==
  (IF rd.done THEN {"timeout"} ELSE {})
    \cup (IF rd.resultCh # <<>> THEN {"result"} ELSE {})

\* which of the two events the reader's select waits for came first
FirstIs(what) == IF rd.first = "none" THEN what ELSE rd.first

\* the select is evaluated: a case that is ready is taken, otherwise the
\* caller is parked on both channels
ReadSelect ==
  /\ rd.pc = "call"
  /\ IF ReadyCases = {}
       THEN rd' = [rd EXCEPT !.pc = "parked"]
       ELSE \E c \in ReadyCases :
              rd' = [rd EXCEPT !.pc = "woken", !.case = c,
                               !.resultCh = IF c = "result" THEN Tail(@) ELSE @]
  /\ UNCHANGED <<planVars, xferVars, retryVars, verifyVars, cliVars>>

\* the goroutine: r.r.Read(p) returns and the result is sent; a parked caller
\* takes it directly, otherwise it goes into the buffer; a send that cannot go
\* through leaves the goroutine blocked
UnderlyingReturns ==
  /\ rd.pc \in {"call", "parked", "woken", "returned"}
  /\ rd.g = "reading"
  /\ \E r \in UnderlyingResults(rd.p) :
       IF ~CanDeliver(rd.resultCh, rd.pc = "parked")
         THEN rd' = [rd EXCEPT !.g = "blocked", !.res = r]
         ELSE IF rd.pc = "parked"
           THEN rd' = [rd EXCEPT !.g = "ended", !.res = r, !.pc = "woken",
                                 !.case = "result", !.first = FirstIs("result")]
           ELSE rd' = [rd EXCEPT !.g = "ended", !.res = r,
                                 !.resultCh = Append(@, r),
                                 !.first = FirstIs("result")]
  /\ UNCHANGED <<planVars, xferVars, retryVars, verifyVars, cliVars>>

\* time passes while the caller waits in the select
IdleClock ==
  /\ rd.pc \in {"parked", "woken"}
  /\ rd.elapsed < IdleTimeout
  /\ rd' = [rd EXCEPT !.elapsed = IF @ + IdleTick > IdleTimeout
                                    THEN IdleTimeout ELSE @ + IdleTick]
  /\ UNCHANGED <<planVars, xferVars, retryVars, verifyVars, cliVars>>

\* context.WithTimeout: ctx.Done() is closed when the timeout has elapsed; a
\* parked caller is woken with that case
DeadlineFires ==
  /\ rd.pc \in {"parked", "woken"}
  /\ ~rd.done
  /\ rd.elapsed = IdleTimeout
  /\ rd' = [rd EXCEPT !.done = TRUE, !.first = FirstIs("deadline"),
                      !.pc = IF rd.pc = "parked" THEN "woken" ELSE @,
                      !.case = IF rd.pc = "parked" THEN "timeout" ELSE @]
  /\ UNCHANGED <<planVars, xferVars, retryVars, verifyVars, cliVars>>

\* the body of the case that was taken
ReadReturns ==
  /\ rd.pc = "woken"
  /\ rd' = [rd EXCEPT !.pc = "returned",
                      !.ret = IF rd.case = "result" THEN rd.res
                              ELSE DeadlineExceeded]
  /\ UNCHANGED <<planVars, xferVars, retryVars, verifyVars, cliVars>>

\* Read(p) has been called: the context and the channel exist, the goroutine
\* runs, no time has passed
InitIdleRead ==
  /\ PlanIdle(EmptyPlan(NilRepo))
  /\ TransferIdle
  /\ RetryIdle
  /\ VerifyIdle
  /\ CliIdle
  /\ \E len \in 1..MaxLen :
       rd = [pc |-> "call", g |-> "reading", p |-> len, res |-> NoResult,
             resultCh |-> <<>>, done |-> FALSE, elapsed |-> 0,
             case |-> "none", ret |-> NoResult, first |-> "none"]

NextIdleRead ==
  \/ ReadSelect
  \/ UnderlyingReturns
  \/ IdleClock
  \/ DeadlineFires
  \/ ReadReturns

SpecIdleRead == InitIdleRead /\ [][NextIdleRead]_vars

\* the caller and the timer make progress; the underlying read may never return
FairIdleRead ==
  /\ SpecIdleRead
  /\ WF_vars(ReadSelect)
  /\ WF_vars(IdleClock)
  /\ WF_vars(DeadlineFires)
  /\ WF_vars(ReadReturns)


\* ================================================================ claims
\* helpers of the claims' statements
PathsOf(entries) == [k \in DOMAIN entries |-> entries[k].File.Path]

CountIn(entries, file) ==
  Cardinality({k \in DOMAIN entries : entries[k].File = file})

\* true containment: the root's segments are a proper prefix of p's
IsDescendant(p, root) ==
  /\ Len(p.segs) > Len(root.segs)
  /\ SubSeq(p.segs, 1, Len(root.segs)) = root.segs

DestinationRoot == Abs(getModelPath(d, repo.ID))

\* BuildPlan has returned a plan
PlanReturned == pc = "planned"

\* C1: after BuildPlan returns a plan, every manifest entry that is not a
\* directory is in exactly one of FilesToSkip and FilesToDownload, once.
C1_ExactlyOneList ==
  PlanReturned =>
    \A k \in DOMAIN repo.Siblings :
      repo.Siblings[k].Type # "directory" =>
        CountIn(plan.FilesToSkip, repo.Siblings[k])
          + CountIn(plan.FilesToDownload, repo.Siblings[k]) = 1

\* C2: no entry of FilesToDownload resolves outside the destination root,
\* and ExecutePlan creates no file outside it.
C2_PathSafe ==
  /\ PlanReturned =>
       \A k \in DOMAIN plan.FilesToDownload :
         IsDescendant(LocalPathOf(d, repo, plan.FilesToDownload[k].File),
                      DestinationRoot)
  /\ \A p \in written : IsDescendant(p, DestinationRoot)

\* ExecutePlan's loop reached file k (1-based) of the plan
Attempted(k) == k <= Len(attempted)

\* ExecutePlan sent the Verified event for plan file k
VerifiedSent(k) ==
  \E c \in DOMAIN progressCalls :
    /\ progressCalls[c].State = "Verified"
    /\ progressCalls[c].Filepath = plan.FilesToDownload[k].File.Path

\* the plan files ExecutePlan did not verify, in plan order
RECURSIVE FailedPaths(_)
FailedPaths(k) ==
  IF k > Len(plan.FilesToDownload) THEN <<>>
  ELSE (IF VerifiedSent(k) THEN <<>> ELSE <<plan.FilesToDownload[k].File.Path>>)
       \o FailedPaths(k + 1)

ExecReturned == pc = "executed" /\ round = 1

RootDirFailed ==
  "failed to create root model directory" \in execResult.text

\* C3 as claimed: when ExecutePlan returns, every plan file was attempted in
\* plan order, the result is nil exactly if no file failed, and otherwise
\* it names every failed file.
C3_AttemptsEveryFile ==
  ExecReturned =>
    /\ attempted = PathsOf(plan.FilesToDownload)
    /\ execResult.nil <=> FailedPaths(1) = <<>>
    /\ [k \in DOMAIN execResult.entries |-> execResult.entries[k].path]
         = FailedPaths(1)

\* C3 as amended: the same once the root directory exists; while the loop
\* runs, exactly the files before the current one were attempted (no file
\* is skipped after a failure) and no result exists yet; if the root
\* directory cannot be created no file is attempted and that error is
\* returned.
C3_ContinueOnError ==
  /\ pc = "ExecutePlan" =>
       /\ attempted = SubSeq(PathsOf(plan.FilesToDownload), 1, idx - 1)
       /\ execResult.nil
  /\ (ExecReturned /\ ~RootDirFailed) =>
       /\ attempted = PathsOf(plan.FilesToDownload)
       /\ execResult.nil <=> FailedPaths(1) = <<>>
       /\ [k \in DOMAIN execResult.entries |-> execResult.entries[k].path]
            = FailedPaths(1)
       /\ \A k \in DOMAIN execResult.entries :
            execResult.entries[k].text \subseteq execResult.text
  /\ (ExecReturned /\ RootDirFailed) =>
       attempted = <<>> /\ ~execResult.nil

\* C3 witness: a run where the first file failed, the second was still
\* transferred and verified, and the aggregate error names the first only
C3_Witness ==
  /\ ExecReturned
  /\ Len(plan.FilesToDownload) = 2
  /\ ~VerifiedSent(1)
  /\ VerifiedSent(2)
  /\ Len(execResult.entries) = 1

\* the local copy of plan file k passes the checks of the manifest
LocalCopyGood(k) ==
  LET f == plan.FilesToDownload[k].File
      local == DiskAt(disk, LocalPathOf(d, repo, f))
  IN /\ local # NoFile
     /\ Len(local) = f.Size
     /\ (f.LFS.IsLFS /\ ~d.skipSHA) => Sha256(local) = f.LFS.Oid

\* C4: a file ExecutePlan counts as successful has the manifest size on
\* disk and, for a large object with hash checking on, the declared hash.
C4_SuccessMeansVerified ==
  (round = 1 /\ pc \in {"ExecutePlan", "executed"}) =>
    \A k \in DOMAIN plan.FilesToDownload :
      (Attempted(k) /\ VerifiedSent(k)) => LocalCopyGood(k)

\* C5: BuildPlan, an ExecutePlan that returns nil, BuildPlan again (force
\* off): nothing is left to download and every file of the first plan is
\* a valid skip.
C5_Idempotent ==
  (round = 2 /\ PlanReturned /\ execResult.nil /\ ~d.forceRedownload) =>
    /\ plan.FilesToDownload = <<>>
    /\ \A k \in DOMAIN firstPlan.FilesToDownload :
         CountIn(plan.FilesToSkip, firstPlan.FilesToDownload[k].File) = 1
    /\ \A k \in DOMAIN firstPlan.FilesToSkip :
         CountIn(plan.FilesToSkip, firstPlan.FilesToSkip[k].File) = 1

\* the server holds exactly the bytes the manifest announces
HonestServer == Len(xf.body) = xf.size

\* C6: with a server that sends exactly the announced bytes, the
\* CurrentSize values of the Downloading events the channel accepted never
\* decrease and never exceed TotalSize, whatever the interleaving of the
\* chunk workers.
C6_ProgressMonotone ==
  HonestServer =>
    LET sent == SelectSeq(delivered, LAMBDA u : u.Filepath = XferPath)
    IN \A j \in DOMAIN sent :
         /\ sent[j].CurrentSize <= sent[j].TotalSize
         /\ j > 1 => sent[j - 1].CurrentSize <= sent[j].CurrentSize

TransferDone == mpc = "done" /\ ~xerr

\* C7: for content of the announced size, the destination written by the
\* multi-stream path (n ranged requests, n temporary files, merge) holds
\* the bytes the single-stream path writes for the same content, for
\* every n; the stepwise single-stream transfer writes those bytes too.
C7_MultiEqualsSingle ==
  (TransferDone /\ HonestServer) =>
    /\ dest = downloadSingleThreaded(xf.body)[2]
    /\ xf.mode = "multi" =>
         dest = downloadMultiThreaded(xf.body, xf.size, xf.n)[2]

\* C7 witness: a finished multi-stream transfer over several workers
\* whose last chunk carries the remainder of the division
C7_Witness ==
  /\ TransferDone
  /\ HonestServer
  /\ xf.mode = "multi"
  /\ xf.n >= 2
  /\ xf.size % xf.n # 0
  /\ dest = xf.body

\* the ExecutePlan calls of the retry loop, in order
RetryCalls == SelectSeq(rlog, LAMBDA e : e.kind = "call")

RunReturned == rpc = "returned"

\* C8: when run returns, ExecutePlan was called at most max-retries times,
\* every call but the last returned a transient error, the loop slept
\* before every call but the first (and only then), every call got the
\* unchanged plan, and run returns nil if a call returned nil (the last
\* one) and else the error of the last call made.
C8_RetryLoop ==
  RunReturned =>
    LET calls == RetryCalls IN
    /\ Len(calls) <= maxRetries
    /\ \A k \in 1..(Len(calls) - 1) : isTransientError(calls[k].err)
    /\ \A j \in DOMAIN rlog :
         /\ (rlog[j].kind = "call" /\ j > 1) => rlog[j - 1].kind = "sleep"
         /\ rlog[j].kind = "sleep" =>
              j > 1 /\ j < Len(rlog) /\ rlog[j + 1].kind = "call"
    /\ \A k \in DOMAIN calls : calls[k].plan = plan
    /\ IF \E k \in DOMAIN calls : calls[k].err.nil
         THEN runResult.nil /\ calls[Len(calls)].err.nil
         ELSE Len(calls) >= 1 /\ runResult = calls[Len(calls)].err

\* err is, or wraps, one of the three typed errors
IsFatal(err) == err.is \cap {ErrAuthentication, ErrForbidden, ErrNotFound} # {}

\* C9: an ExecutePlan call that returned an error that is or wraps
\* ErrAuthentication, ErrForbidden or ErrNotFound is the last thing the
\* loop did: no sleep and no call follows it, and run returns that error.
C9_FatalNotRetried ==
  \A j \in DOMAIN rlog :
    (rlog[j].kind = "call" /\ IsFatal(rlog[j].err)) =>
      /\ j = Len(rlog)
      /\ rpc \in {"after", "returned"}
      /\ lastErr = rlog[j].err
      /\ RunReturned => runResult = rlog[j].err

\* C9 witness: after a retried attempt, a call returned a typed error that
\* also is a network timeout, and run returned it
C9_Witness ==
  /\ RunReturned
  /\ Len(RetryCalls) = 2
  /\ IsFatal(runResult)
  /\ runResult.net /\ runResult.timeout

\* worker i is inside sendProgress
InSendProgress(i) == i \in Workers /\ w[i].pc \in {"send", "locked", "select"}

\* a step in which some worker leaves the select while the channel is full
DropsWhenFull ==
  \A i \in Workers :
    (w[i].pc = "select" /\ w'[i].pc # "select" /\ Len(chan) >= xf.cap) =>
      /\ chan' = chan
      /\ delivered' = delivered
      /\ Len(dropped') = Len(dropped) + 1

\* C10: with the producers scheduled and nothing assumed of the consumer,
\* every sendProgress call returns; the select can always run; and a call
\* that finds the channel full discards its event and leaves the channel
\* as it was.
C10_NeverBlocks ==
  /\ \A i \in 0..(MaxWorkers - 1) : InSendProgress(i) ~> ~InSendProgress(i)
  /\ [](\A i \in 0..(MaxWorkers - 1) :
          (i \in Workers /\ w[i].pc = "select") => ENABLED SendSelect(i))
  /\ [][DropsWhenFull]_vars

\* C10 witness: a worker found the channel full, dropped its event and
\* went on copying while the channel is still full
C10_Witness ==
  /\ xf.cap >= 1
  /\ Len(chan) = xf.cap
  /\ dropped # <<>>
  /\ \E i \in Workers :
       /\ w[i].pc \in {"copy", "done"}
       /\ dropped[Len(dropped)].CurrentSize = w[i].newTotal

\* an event the throttle must let through: a terminal state, or a
\* Downloading event at 100%
IsTerminalEvent(u) ==
  \/ u.State \in {"Complete", "Verified"}
  \/ u.State = "Downloading" /\ u.CurrentSize = u.TotalSize

\* C11 as claimed: no terminal or 100% event that reached sendProgress is
\* ever discarded.
C11_TerminalNeverDropped ==
  \A j \in DOMAIN dropped : ~IsTerminalEvent(dropped[j])

\* C11 as amended: a terminal or 100% event is never suppressed by the
\* throttle, however recent the last update is: the caller that holds the
\* mutex with such an event goes on to the select; and the select delivers
\* it whenever the channel has room at that moment.
C11_TerminalNotThrottled ==
  [][/\ \A i \in Workers :
          /\ (w[i].pc = "locked" /\ w[i].newTotal = xf.size /\ w'[i].pc # "locked")
               => w'[i].pc = "select"
          /\ (w[i].pc = "select" /\ w[i].newTotal = xf.size /\ w'[i].pc # "select"
                /\ Len(chan) < xf.cap)
               => delivered' = Append(delivered,
                     Call(XferPath, "Downloading", xf.size, xf.size, ""))
     /\ (mpc \in {"CompleteLocked", "VerifiedLocked"} /\ mpc' # mpc)
          => mpc' \in {"CompleteSelect", "VerifiedSelect"}
     /\ (mpc \in {"CompleteSelect", "VerifiedSelect"} /\ mpc' # mpc
           /\ Len(chan) < xf.cap)
          => /\ Len(delivered') = Len(delivered) + 1
             /\ delivered'[Len(delivered')].State = ReportState
             /\ dropped' = dropped
    ]_vars

\* C11 witness: within one throttle interval the channel accepted an
\* intermediate Downloading event and then the file's Verified event
C11_Witness ==
  /\ mpc = "reported"
  /\ now = 0
  /\ Len(delivered) >= 2
  /\ delivered[1].State = "Downloading"
  /\ delivered[1].CurrentSize < delivered[1].TotalSize
  /\ delivered[Len(delivered)].State = "Verified"

\* File.Size added up over the first k entries of a list
RECURSIVE SizeOfFirst(_, _)
SizeOfFirst(entries, k) ==
  IF k = 0 THEN 0 ELSE SizeOfFirst(entries, k - 1) + entries[k].File.Size

\* C12: in every plan BuildPlan returns, TotalDownloadSize is the sum of
\* File.Size over FilesToDownload and TotalSkipSize the sum over
\* FilesToSkip.
C12_TotalsAreSums ==
  PlanReturned =>
    /\ plan.TotalDownloadSize
         = SizeOfFirst(plan.FilesToDownload, Len(plan.FilesToDownload))
    /\ plan.TotalSkipSize
         = SizeOfFirst(plan.FilesToSkip, Len(plan.FilesToSkip))

\* C12 witness: a returned plan with a file in each list, one of them
\* larger than one byte
C12_Witness ==
  /\ PlanReturned
  /\ Len(plan.FilesToDownload) = 1
  /\ Len(plan.FilesToSkip) = 1
  /\ plan.TotalDownloadSize + plan.TotalSkipSize >= 3

\* the filter rule as the claim words it
ExcludeMatches(path) ==
  \E k \in DOMAIN d.excludePatterns : Match(d.excludePatterns[k], path)

IncludeMatches(path) ==
  \E k \in DOMAIN d.includePatterns : Match(d.includePatterns[k], path)

FilterPasses(path) ==
  ~ExcludeMatches(path) /\ (d.includePatterns = <<>> \/ IncludeMatches(path))

\* C13: for every manifest path the filter passes it exactly if no exclude
\* pattern matches and there is no include pattern or one matches (so a
\* path matched by both is rejected); a rejected path is in no returned
\* plan's FilesToDownload.
C13_FilterRule ==
  \A k \in DOMAIN repo.Siblings :
    LET path == repo.Siblings[k].Path IN
    /\ shouldDownload(d, path) <=> FilterPasses(path)
    /\ (ExcludeMatches(path) /\ IncludeMatches(path)) => ~shouldDownload(d, path)
    /\ (PlanReturned /\ ~FilterPasses(path)) =>
         \A j \in DOMAIN plan.FilesToDownload :
           plan.FilesToDownload[j].File.Path # path

\* C13 witness: a forced plan over a.j and m.b with include "*.j" and
\* exclude "a.j": a.j matches both and is not planned
C13_Witness ==
  /\ PlanReturned
  /\ d.forceRedownload
  /\ repo.Siblings = <<FileAJ, FileMB>>
  /\ ExcludeMatches(FileAJ.Path) /\ IncludeMatches(FileAJ.Path)
  /\ plan.FilesToDownload = <<>>

VerifyReturned == vf.pc = "returned"

\* the verdict of the decision order the claim gives: <<valid, reason>>
ClaimedVerdict ==
  IF vf.local = NoFile THEN <<FALSE, "missing">>
  ELSE IF vf.local # StatError /\ LocalSize(vf.local) # vf.file.Size
    THEN <<FALSE, "size mismatch">>
  ELSE IF vf.file.LFS.IsLFS /\ ~vf.skipSHA
    THEN (IF Sha256(LocalBytes(vf.local)) # vf.file.LFS.Oid
            THEN <<FALSE, "checksum mismatch">>
          ELSE <<TRUE, "SHA256 Checksum">>)
  ELSE <<TRUE, "File Size">>

\* the same order with the cases in which the file cannot be examined
VerdictWithIOErrors ==
  IF vf.local = NoFile THEN <<FALSE, "missing">>
  ELSE IF vf.local = StatError THEN <<FALSE, "stat error">>
  ELSE IF LocalSize(vf.local) # vf.file.Size THEN <<FALSE, "size mismatch">>
  ELSE IF vf.file.LFS.IsLFS /\ ~vf.skipSHA
    THEN (IF OpenFails(vf.local) THEN <<FALSE, "read error">>
          ELSE IF ReadBreaks(vf.local) THEN <<FALSE, "hashing error">>
          ELSE IF Sha256(LocalBytes(vf.local)) # vf.file.LFS.Oid
            THEN <<FALSE, "checksum mismatch">>
          ELSE <<TRUE, "SHA256 Checksum">>)
  ELSE <<TRUE, "File Size">>

\* the hash was computed only if the size agreed and hashing is called for
HashedOnlyWhenDue ==
  vf.hashed =>
    /\ LocalSize(vf.local) = vf.file.Size
    /\ vf.file.LFS.IsLFS
    /\ ~vf.skipSHA

\* C14 as claimed: the check decides missing, size mismatch, hash mismatch
\* or hash verified, and size verified in every remaining case, in this
\* order, and hashes only when the size agrees and hashing is enabled.
C14_DecisionOrder ==
  /\ vf.pc # "idle" => HashedOnlyWhenDue
  /\ VerifyReturned => <<vf.err = Nil, vf.reason>> = ClaimedVerdict

\* C14 as amended: the same order, with a file that cannot be examined
\* invalid: a stat error before the size test, an open or read error where
\* the hash would be computed; isLocalFileValid reports the same verdict.
C14_DecisionOrderIO ==
  /\ vf.pc # "idle" => HashedOnlyWhenDue
  /\ VerifyReturned =>
       /\ <<vf.err = Nil, vf.reason>> = VerdictWithIOErrors
       /\ isLocalFileValid(d, disk, LocalPathOf(d, repo, vf.file), vf.file)
            = VerdictWithIOErrors

\* C14 witness: a large object of the right size and the wrong content,
\* hash checking on: hashed, and invalid as a checksum mismatch
C14_Witness ==
  /\ VerifyReturned
  /\ vf.file.LFS.IsLFS
  /\ ~vf.skipSHA
  /\ vf.local = Flip(Origin(vf.file))
  /\ vf.hashed
  /\ vf.reason = "checksum mismatch"

\* manifest entry k is a file that passes the filter and lies below the
\* destination root
Plannable(k) ==
  /\ repo.Siblings[k].Type # "directory"
  /\ FilterPasses(repo.Siblings[k].Path)
  /\ IsDescendant(LocalPathOf(d, repo, repo.Siblings[k]), DestinationRoot)

\* the entries of a list that carry the file, as a set of reasons
ReasonsIn(entries, file) ==
  {entries[j].Reason : j \in {i \in DOMAIN entries : entries[i].File = file}}

\* C15: with force off, a returned plan holds every filter-passing,
\* path-safe entry in FilesToSkip exactly if verifyLocalFile finds the
\* local file valid, and otherwise in FilesToDownload with the reason
\* verifyLocalFile gave.
C15_ClassifiedByLocalState ==
  (PlanReturned /\ ~d.forceRedownload) =>
    \A k \in DOMAIN repo.Siblings :
      Plannable(k) =>
        LET f == repo.Siblings[k]
            r == verifyLocalFile(d, disk, Join(getModelPath(d, repo.ID), f.Path), f)
        IN IF r[2] = Nil
             THEN /\ CountIn(plan.FilesToSkip, f) = 1
                  /\ CountIn(plan.FilesToDownload, f) = 0
                  /\ ReasonsIn(plan.FilesToSkip, f) = {r[1]}
             ELSE /\ CountIn(plan.FilesToDownload, f) = 1
                  /\ CountIn(plan.FilesToSkip, f) = 0
                  /\ ReasonsIn(plan.FilesToDownload, f) = {r[1]}

\* C15 witness: a.j absent and m.b present with the right size and the
\* wrong content: both planned for transfer, as missing and as a checksum
\* mismatch
C15_Witness ==
  /\ PlanReturned
  /\ ~d.forceRedownload
  /\ ~d.skipSHA
  /\ repo.Siblings = <<FileAJ, FileMB>>
  /\ DiskAt(disk, LocalPathOf(d, repo, FileMB)) = Flip(Origin(FileMB))
  /\ plan.FilesToDownload =
       <<[File |-> FileAJ, Reason |-> "missing"],
         [File |-> FileMB, Reason |-> "checksum mismatch"]>>
  /\ plan.FilesToSkip = <<>>

\* the progress calls BuildPlan made for a path
CallsFor(path) ==
  SelectSeq(progressCalls, LAMBDA c : c.Filepath = path)

\* C16: with force on, a returned plan holds every filter-passing,
\* path-safe entry in FilesToDownload, once, with the forced reason,
\* whatever is on disk; the local file was not checked (the only progress
\* call for the entry is the "forced" one, none is a Verifying event); and
\* FilesToSkip is empty.
C16_ForcePlansEverything ==
  (PlanReturned /\ d.forceRedownload) =>
    /\ \A k \in DOMAIN repo.Siblings :
         Plannable(k) =>
           LET f == repo.Siblings[k] IN
           /\ CountIn(plan.FilesToDownload, f) = 1
           /\ ReasonsIn(plan.FilesToDownload, f) = {"forced re-download"}
           /\ CallsFor(f.Path) =
                <<Call(f.Path, "Verified", f.Size, f.Size, "forced")>>
    /\ plan.FilesToSkip = <<>>

\* C16 witness: force on, both files present and valid on disk, hash
\* checking on, both planned as forced
C16_Witness ==
  /\ PlanReturned
  /\ d.forceRedownload
  /\ ~d.skipSHA
  /\ repo.Siblings = <<FileAJ, FileMB>>
  /\ DiskAt(disk, LocalPathOf(d, repo, FileAJ)) = Origin(FileAJ)
  /\ DiskAt(disk, LocalPathOf(d, repo, FileMB)) = Origin(FileMB)
  /\ Len(plan.FilesToDownload) = 2

\* BuildPlan is running and its loop has entries left
InPlanLoop == pc = "BuildPlan" /\ idx <= Len(flattenTree(repo.Siblings))

PlanFailed == pc = "BuildPlanFailed"

\* BuildPlan returned the nil plan and the context's error
NilPlanAndCtxError ==
  /\ plan = EmptyPlan(NilRepo)
  /\ planErr = "context canceled"

\* C17 as claimed: BuildPlan returns an error only when cancelled, the
\* error comes with the nil plan, and a cancelled BuildPlan processes no
\* further entry and returns the nil plan and the context's error.
C17_CancelAlwaysAborts ==
  /\ [](planErr # Nil => (ctxDone /\ PlanFailed /\ NilPlanAndCtxError))
  /\ [][(ctxDone /\ pc = "BuildPlan" /\ pc' # "BuildPlan")
          => (PlanFailed' /\ NilPlanAndCtxError')]_vars

\* C17 as amended: the check comes before each entry, so a cancellation is
\* seen only while entries are left: then no further entry is processed
\* and the nil plan and the context's error are returned; a cancellation
\* after the last entry's check (or with no file entry at all) goes
\* unseen and BuildPlan returns the complete plan and no error. An error is
\* returned only on cancellation.
C17_CancelSeenBeforeEntry ==
  /\ [](planErr # Nil => (ctxDone /\ PlanFailed /\ NilPlanAndCtxError))
  /\ [](PlanFailed => planErr # Nil)
  /\ [][(ctxDone /\ InPlanLoop /\ (pc' # pc \/ idx' # idx \/ plan' # plan))
          => (PlanFailed' /\ NilPlanAndCtxError' /\ idx' = idx
              /\ progressCalls' = progressCalls)]_vars
  /\ [][(~ctxDone /\ InPlanLoop /\ plan' # plan)
          => (idx' = idx + 1 /\ pc' = "BuildPlan")]_vars
  /\ [][(ctxDone /\ pc = "BuildPlan" /\ ~InPlanLoop /\ pc' # "BuildPlan")
          => (PlanReturned' /\ planErr' = Nil)]_vars

\* C17 witness: cancelled after the first of two entries was processed;
\* the partial plan is gone
C17_Witness ==
  /\ PlanFailed
  /\ idx = 2
  /\ Len(flattenTree(repo.Siblings)) = 2
  /\ progressCalls # <<>>
  /\ NilPlanAndCtxError

\* C18: ExecutePlan leaves the plan unchanged: whenever a first ExecutePlan
\* call is running or has returned, with or without an error, the plan's
\* FilesToDownload, FilesToSkip, TotalDownloadSize, TotalSkipSize and Repo
\* equal what BuildPlan returned, and no step of ExecutePlan changes any
\* of them
InExecutePlan == round = 1 /\ pc \in {"ExecutePlan", "executed"}

PlanFields ==
  {"FilesToDownload", "FilesToSkip", "TotalDownloadSize", "TotalSkipSize",
   "Repo"}

C18_PlanUnchanged ==
  /\ [](InExecutePlan => \A fld \in PlanFields : plan[fld] = firstPlan[fld])
  /\ [][(pc \in {"planned", "ExecutePlan"} /\ round = 1)
          => \A fld \in PlanFields : plan'[fld] = plan[fld]]_vars

C18_Witness ==
  /\ ExecReturned
  /\ round = 1
  /\ Len(plan.FilesToDownload) = 2
  /\ Len(downloadErrors) = 1
  /\ written # {}
  /\ plan = firstPlan
  /\ plan.TotalDownloadSize > 0

\* C19: when BuildPlan returned a plan with no file to download and the run
\* is non-interactive (-q, -f, or no terminal), the CLI never calls
\* ExecutePlan, goes straight to its return and returns nil; in the
\* interactive case every ExecutePlan call comes after the user answered
\* y to the re-download prompt
NothingToDownload == pc = "planned" /\ Len(firstPlan.FilesToDownload) = 0

NonInteractive == cli.quietFlag \/ cli.force \/ ~cli.isTerminal

SaysYes(input) ==
  SelectSeq(input, LAMBDA c : ~IsSpace(c)) \in {<<"y">>, <<"Y">>}

C19_NoDownloadNoExecute ==
  /\ (NothingToDownload /\ NonInteractive) =>
       /\ RetryCalls = <<>>
       /\ cli.pc \in {"BuildPlan", "returned"}
       /\ cli.input = NoInput
       /\ plan = firstPlan
       /\ cli.pc = "returned" => (RunReturned /\ runResult.nil)
  /\ (NothingToDownload /\ ~NonInteractive /\ cli.pc \in {"summary", "start", "retry"}) =>
       SaysYes(cli.input)
  /\ (NothingToDownload /\ ~NonInteractive /\ RetryCalls # <<>>) =>
       (cli.pc = "retry" /\ SaysYes(cli.input))

C19_Witness ==
  /\ NothingToDownload
  /\ ~cli.isTerminal /\ ~cli.force /\ ~cli.quietFlag
  /\ Len(plan.FilesToSkip) = 2
  /\ cli.pc = "returned"
  /\ RunReturned
  /\ runResult.nil

\* C20: if a read of a file transfer failed by the idle-read timeout, the
\* error ExecutePlan returns for that attempt is one the retry loop
\* classifies as transient
FailedByIdleTimeout ==
  \E k \in DOMAIN downloadErrors :
     /\ downloadErrors[k].prefix = "failed to download"
     /\ "context deadline exceeded" \in downloadErrors[k].text

C20_IdleTimeoutTransient ==
  (ExecReturned /\ FailedByIdleTimeout) => isTransientError(execResult)

\* C21: if a file of an ExecutePlan attempt failed with a fatal error (401,
\* 403 or 404), the error the attempt returns is one on which the retry
\* loop breaks, whatever the errors of the attempt's other files
FatalEntry(e) ==
  e.prefix = "failed to download" /\ e.text \cap {"401", "403", "404"} # {}

FailedFatally == \E k \in DOMAIN downloadErrors : FatalEntry(downloadErrors[k])

C21_FatalStopsRetry ==
  (ExecReturned /\ FailedFatally) => ~isTransientError(execResult)

\* C22: a fatal error (401, 403, 404) met while executing a plan aborts the
\* job: the file that hit it is the last one handed to downloadFile in that
\* ExecutePlan call
C22_FatalAbortsJob ==
  \A k \in DOMAIN downloadErrors :
     FatalEntry(downloadErrors[k]) =>
       attempted[Len(attempted)] = downloadErrors[k].path

\* C23: in the multi-stream path the n requested byte ranges are
\* contiguous, pairwise disjoint and cover [0, size) exactly: range i
\* starts at i * (size div n), ranges 0..n-2 hold size div n bytes, and
\* the last range ends at size - 1
RangeOf(i) ==
  ChunkStart(xf.size, xf.n, i)..ChunkEnd(xf.size, xf.n, i)

C23_RangesPartition ==
  xf.mode = "multi" =>
    /\ \A i \in Workers :
         /\ ChunkStart(xf.size, xf.n, i) = i * (xf.size \div xf.n)
         /\ i < xf.n - 1 => Cardinality(RangeOf(i)) = xf.size \div xf.n
         /\ i < xf.n - 1 =>
              ChunkStart(xf.size, xf.n, i + 1) = ChunkEnd(xf.size, xf.n, i) + 1
    /\ ChunkStart(xf.size, xf.n, 0) = 0
    /\ ChunkEnd(xf.size, xf.n, xf.n - 1) = xf.size - 1
    /\ \A i, j \in Workers : i # j => RangeOf(i) \cap RangeOf(j) = {}
    /\ UNION {RangeOf(i) : i \in Workers} = 0..(xf.size - 1)

\* C23 witness: every worker has sent its request, for a size the
\* connection count does not divide
C23_Witness ==
  /\ xf.mode = "multi"
  /\ xf.n >= 2
  /\ xf.size % xf.n # 0
  /\ \A i \in Workers : w[i].pc = "copy"
  /\ Cardinality(RangeOf(xf.n - 1)) > xf.size \div xf.n

\* C24: the merge starts only after all n workers have finished, appends
\* the chunk files to the destination in index order 0..n-1, and its
\* output is a function of the chunks alone, whatever the order in which
\* the workers finished
ChunkOf(i) ==
  RangeBody(xf.body, ChunkStart(xf.size, xf.n, i), ChunkEnd(xf.size, xf.n, i))

MergedUpTo(k) == Concat([j \in 1..k |-> ChunkOf(j - 1)])

C24_MergeInOrder ==
  /\ [](mpc = "merge" =>
          /\ \A i \in Workers : w[i].pc = "done"
          /\ dest = MergedUpTo(mi)
          /\ \A i \in Workers : i >= mi => tmp[i] = ChunkOf(i))
  /\ []((xf.mode = "multi" /\ dest # NoFile) =>
          \A i \in Workers : w[i].pc = "done")
  /\ []((xf.mode = "multi" /\ mpc = "done" /\ ~xerr) => dest = MergedUpTo(xf.n))
  /\ [][(mpc = "merge" /\ dest' # dest) =>
          /\ \E k \in 1..Len(ChunkOf(mi)) :
               dest' = dest \o SubSeq(ChunkOf(mi), 1, k)
          /\ mpc' = "merge" => (dest' = dest \o ChunkOf(mi) /\ mi' = mi + 1)]_vars

\* C24 witness: a merged file whose last chunk was completely written
\* before chunk 0 was
C24_Witness ==
  /\ xf.mode = "multi"
  /\ xf.n >= 2
  /\ mpc = "done"
  /\ ~xerr
  /\ w[xf.n - 1].newTotal < w[0].newTotal
  /\ dest = MergedUpTo(xf.n)
  /\ Len(dest) = xf.size

\* C25: a multi-stream file with a failed chunk worker ends with a chunk
\* error and without the destination having been created or truncated;
\* the failure is recorded once, for that file, and ExecutePlan goes on
\* with the next file
ChunkFailed(e) == e.prefix = "failed to download" /\ "chunk failed" \in e.text

ErrorsOf(path) ==
  SelectSeq(downloadErrors, LAMBDA e : e.path = path)

C25_WaitsForAllNoMerge ==
  (xf.mode = "multi" /\ \E i \in Workers : w[i].pc = "failed") =>
    /\ mpc \in {"wait", "done"}
    /\ mi = 0
    /\ dest = NoFile
    /\ mpc = "done" => (AllWorkersEnded /\ xerr)

MultiReturned == xf.mode = "multi" /\ mpc \notin {"wait", "merge"}

Stored(file) == IF file = NoFile THEN 0 ELSE Len(file)

RECURSIVE SumStored(_, _)
SumStored(files, n) ==
  IF n = 0 THEN 0 ELSE Stored(files[n - 1]) + SumStored(files, n - 1)

BytesOnDisk ==
  IF xf.mode = "multi" THEN SumStored(tmp, xf.n) ELSE Stored(dest)

C27_CounterIsAtomic ==
  /\ []((mpc = "wait" /\ AllWorkersEnded) => downloadedBytes = BytesOnDisk)
  /\ [](\A i \in Workers : w[i].newTotal <= downloadedBytes)
  /\ [][\A i \in Workers :
          w'[i].newTotal # w[i].newTotal =>
            /\ w[i].pc = "copy"
            /\ w'[i].newTotal = downloadedBytes'
            /\ downloadedBytes' - downloadedBytes
                 = Len(w[i].rest) - Len(w'[i].rest)
            /\ downloadedBytes' > downloadedBytes]_vars
  /\ [][downloadedBytes' # downloadedBytes =>
          \E i \in Workers : w'[i].newTotal # w[i].newTotal]_vars

\* C27 witness: two workers have ended after writes of both were
\* interleaved (the last worker wrote first and last, worker 0 in between)
C27_Witness ==
  /\ xf.mode = "multi"
  /\ xf.n >= 2
  /\ mpc = "wait"
  /\ \A i \in Workers : w[i].pc = "done"
  /\ w[xf.n - 1].newTotal = downloadedBytes
  /\ w[0].newTotal > Stored(tmp[0])
  /\ w[0].newTotal < downloadedBytes
  /\ downloadedBytes = BytesOnDisk

\* C28: the throttle is per file and free of races: at most one caller is
\* between Lock and Unlock; an intermediate event of a file passes only if
\* the file has no lastUpdated yet or at least 100 ms have passed since
\* the last event that passed for that file, whose time lastUpdated then
\* takes; a file's lastUpdated is changed by that file's passing events
\* only, so events of one file never throttle those of another
Intermediate(current) == current # xf.size

HoldersOfLock ==
  {i \in Workers : w[i].pc = "locked"}
    \cup (IF mpc \in {"CompleteLocked", "VerifiedLocked"} THEN {xf.n} ELSE {})

WorkerPasses(i) == w[i].pc = "locked" /\ w'[i].pc = "select"

ReportPasses ==
  /\ mpc \in {"CompleteLocked", "VerifiedLocked"}
  /\ mpc' \in {"CompleteSelect", "VerifiedSelect"}

TooSoon(filepath) ==
  lastUpdated[filepath] # -1 /\ now - lastUpdated[filepath] < 100

C28_ThrottlePerFile ==
  /\ [](HoldersOfLock = (IF mutex = -1 THEN {} ELSE {mutex}))
  /\ [][\A i \in Workers :
          (w[i].pc = "locked" /\ w'[i].pc # "locked") =>
            IF Intermediate(w[i].newTotal) /\ TooSoon(XferPath)
              THEN w'[i].pc = "copy" /\ lastUpdated' = lastUpdated
              ELSE /\ WorkerPasses(i)
                   /\ lastUpdated' = [lastUpdated EXCEPT ![XferPath] = now]]_vars
  /\ [][lastUpdated'[XferPath] # lastUpdated[XferPath] =>
          /\ ReportPasses \/ \E i \in Workers : WorkerPasses(i)
          /\ lastUpdated'[XferPath] = now
          /\ EventsOf(OtherPath)' = EventsOf(OtherPath)]_vars
  /\ [][lastUpdated'[OtherPath] # lastUpdated[OtherPath] =>
          /\ Len(EventsOf(OtherPath)') = Len(EventsOf(OtherPath)) + 1
          /\ ~TooSoon(OtherPath)
          /\ lastUpdated' = [lastUpdated EXCEPT ![OtherPath] = now]
          /\ w' = w /\ mpc' = mpc]_vars

\* C28 witness: an intermediate event of the transferred file passed in
\* the very instant in which an event of the other file had passed, and a
\* later intermediate event of the transferred file was suppressed
C28_Witness ==
  /\ lastUpdated[OtherPath] = now
  /\ lastUpdated[XferPath] = now
  /\ EventsOf(OtherPath) # <<>>
  /\ Len(EventsOf(XferPath)) = 1
  /\ Intermediate(EventsOf(XferPath)[1].CurrentSize)
  /\ \E i \in Workers :
       /\ w[i].pc = "copy"
       /\ w[i].newTotal > EventsOf(XferPath)[1].CurrentSize
       /\ Intermediate(w[i].newTotal)

\* C29: SafeIdleTimeoutReader.Read returns the underlying read's result when
\* that result is delivered before the deadline fires, and otherwise 0 bytes
\* with the deadline error once the idle timeout has elapsed; every call
\* returns; the goroutine's send never blocks, so the goroutine has ended in
\* the very step in which the underlying read returns.
C29_IdleReadReturns ==
  /\ [](rd.pc = "returned" =>
          /\ rd.first = "result" => rd.ret = rd.res /\ rd.g = "ended"
          /\ rd.first = "deadline" =>
               rd.ret = DeadlineExceeded /\ rd.elapsed = IdleTimeout
          /\ rd.first # "none")
  /\ (rd.pc = "call") ~> (rd.pc = "returned")
  /\ [](rd.pc # "idle" => rd.g \in {"reading", "ended"})
  /\ [](rd.pc # "idle" => (rd.g = "ended" <=> rd.res # NoResult))

\* the call timed out and the abandoned read returned afterwards: its result
\* sits in the buffer and the goroutine is gone
C29_Witness ==
  /\ rd.pc = "returned"
  /\ rd.ret = DeadlineExceeded
  /\ rd.first = "deadline"
  /\ rd.g = "ended"
  /\ rd.resultCh = <<rd.res>>
  /\ rd.res.n > 0

\* File.Size added up over those of the first k entries that pass the filters
RECURSIVE SizeOfPassing(_, _)
SizeOfPassing(entries, k) ==
  IF k = 0 THEN 0
  ELSE SizeOfPassing(entries, k - 1)
         + (IF FilterPasses(entries[k].File.Path) THEN entries[k].File.Size ELSE 0)

\* a manifest entry that is a file and that the filters reject
FilteredOut(file) == file.Type # "directory" /\ ~FilterPasses(file.Path)

\* the totals of a returned plan hold no size of a rejected entry
C30_FilteredNotCounted ==
  PlanReturned =>
    /\ plan.TotalDownloadSize
         = SizeOfPassing(plan.FilesToDownload, Len(plan.FilesToDownload))
    /\ plan.TotalSkipSize
         = SizeOfPassing(plan.FilesToSkip, Len(plan.FilesToSkip))

\* C30: in every returned plan a file entry rejected by the include/exclude
\* filters is in FilesToSkip with the reason "filtered-skip", and neither
\* total holds its size.
C30_FilteredRecordedAsSkip ==
  PlanReturned =>
    /\ \A k \in DOMAIN repo.Siblings :
         FilteredOut(repo.Siblings[k]) =>
           \E j \in DOMAIN plan.FilesToSkip :
             /\ plan.FilesToSkip[j].File = repo.Siblings[k]
             /\ plan.FilesToSkip[j].Reason = "filtered-skip"
    /\ C30_FilteredNotCounted

\* the file whose turn it is in ExecutePlan's loop
FileInTurn == plan.FilesToDownload[idx].File

\* ExecutePlan takes one turn of its loop
ExecTurn == pc = "ExecutePlan" /\ idx <= Len(plan.FilesToDownload) /\ idx' = idx + 1

\* what only the single-stream path leaves behind: the checksum computed
\* while copying, reported as the verification method
SingleStreamSeen(calls, file) ==
  \E k \in DOMAIN calls :
    /\ calls[k].Filepath = file.Path
    /\ calls[k].State = "Verified"
    /\ calls[k].Message = "On-the-fly SHA256"

\* what only the multi-stream path leaves behind: a verification of the
\* finished file from disk, or a chunk error
MultiStreamSeen(calls, errs, file) ==
  \/ \E k \in DOMAIN calls :
       /\ calls[k].Filepath = file.Path
       /\ calls[k].State = "Verified"
       /\ calls[k].Message # "On-the-fly SHA256"
  \/ \E k \in DOMAIN errs :
       errs[k].path = file.Path /\ "chunk failed" \in errs[k].text

\* the file is below the threshold of the multi-stream path
BelowThreshold(file) ==
  ~file.LFS.IsLFS \/ file.Size < d.numConnections * MiB

\* C31: in every turn of ExecutePlan's loop the file leaves the marks of
\* the single-stream path only if it is not a large object or smaller than
\* numConnections x 1 MiB, and the marks of the multi-stream path only
\* otherwise; a large object of exactly numConnections x 1 MiB never takes
\* the single-stream path.
C31_PathByThreshold ==
  [][ExecTurn =>
       /\ SingleStreamSeen(progressCalls', FileInTurn) => BelowThreshold(FileInTurn)
       /\ MultiStreamSeen(progressCalls', downloadErrors', FileInTurn)
            => ~BelowThreshold(FileInTurn)
       /\ (FileInTurn.LFS.IsLFS /\ FileInTurn.Size = d.numConnections * MiB)
            => ~SingleStreamSeen(progressCalls', FileInTurn)]_vars

\* C31 witness: a large object of exactly numConnections x 1 MiB went down
\* the multi-stream path and was verified from disk
C31_Witness ==
  /\ pc = "ExecutePlan"
  /\ FileMB.Size = d.numConnections * MiB
  /\ MultiStreamSeen(progressCalls, <<>>, FileMB)

\* downloadChunk creates its chunk file once its ranged request was answered
ChunkFilesCreated(dd, file, o) ==
  o.kind \in {"read", "ok"} /\ ~UseSingleThreaded(dd, file)

\* the context is cancelled and a file is still to come
CancelledWithFilesLeft ==
  pc = "ExecutePlan" /\ ctxDone /\ idx <= Len(plan.FilesToDownload)

\* C32: a file whose turn in ExecutePlan's loop comes after the context was
\* cancelled is not transferred: the disk and the set of created files stay
\* as they are, no outcome open to it creates the destination or a chunk
\* file, and the turn ends in an error; and once the context is cancelled
\* with a file still to come, ExecutePlan returns a non-nil error.
C32_CancelStopsTransfers ==
  /\ [][(ExecTurn /\ ctxDone) =>
          /\ disk' = disk
          /\ written' = written
          /\ Len(downloadErrors') = Len(downloadErrors) + 1
          /\ \A o \in RoundTrips(ctxDone, FileInTurn) :
               /\ ~downloadFile(d, FileInTurn, o).wrote
               /\ ~ChunkFilesCreated(d, FileInTurn, o)]_vars
  /\ [](CancelledWithFilesLeft => [](pc = "executed" => ~execResult.nil))

\* C32 witness: the first file was transferred, the context was cancelled,
\* the second file's turn came and went without a file of its own, and
\* ExecutePlan returned its error
C32_Witness ==
  /\ pc = "executed"
  /\ ctxDone
  /\ ~execResult.nil
  /\ Len(attempted) = 2
  /\ Len(downloadErrors) = 1
  /\ downloadErrors[1].path = attempted[2]
  /\ "context canceled" \in downloadErrors[1].text
  /\ Cardinality(written) = 1

\* ----------------------------------------------- the CLI's download display
\* downloadDisplayProgress before the first event: a fileProgressState per
\* file of the plan, nothing downloaded (sizes: path -> File.Size)
DisplayStart(sizes) ==
  [totalDownloaded |-> 0,
   fileStates |-> [p \in DOMAIN sizes |->
                     [processedBytes |-> 0, totalSize |-> sizes[p]]]]

\* a display that never lets a file's count go back
DisplayEventMonotone(st, pr) ==
  IF pr.Filepath \notin DOMAIN st.fileStates THEN st
  ELSE LET state == st.fileStates[pr.Filepath]
           target == IF pr.State = "Downloading" THEN pr.CurrentSize
                     ELSE IF pr.State \in {"Complete", "Verified"}
                       THEN state.totalSize
                     ELSE state.processedBytes
       IN IF target > state.processedBytes
            THEN [totalDownloaded |-> st.totalDownloaded + (target - state.processedBytes),
                  fileStates |-> [st.fileStates EXCEPT
                                    ![pr.Filepath].processedBytes = target]]
          ELSE st

\* downloadDisplayProgress, one event taken from progressChan
DisplayEvent(st, pr) ==
  IF pr.Filepath \notin DOMAIN st.fileStates THEN st
  ELSE LET state == st.fileStates[pr.Filepath] IN
       IF pr.State = "Downloading" THEN
         [totalDownloaded |->
            IF pr.CurrentSize > state.processedBytes
              THEN st.totalDownloaded + (pr.CurrentSize - state.processedBytes)
              ELSE st.totalDownloaded,
          fileStates |-> [st.fileStates EXCEPT
                            ![pr.Filepath].processedBytes = pr.CurrentSize]]
       ELSE IF pr.State \in {"Complete", "Verified"} THEN
         [totalDownloaded |->
            IF state.processedBytes < state.totalSize
              THEN st.totalDownloaded + (state.totalSize - state.processedBytes)
              ELSE st.totalDownloaded,
          fileStates |-> [st.fileStates EXCEPT
                            ![pr.Filepath].processedBytes = state.totalSize]]
       ELSE st

\* the display after the first k events of a sequence
RECURSIVE DisplayAfter(_, _, _)
DisplayAfter(sizes, events, k) ==
  IF k = 0 THEN DisplayStart(sizes)
  ELSE DisplayEvent(DisplayAfter(sizes, events, k - 1), events[k])

\* the display of the one transfer that is followed in steps: its plan
\* holds the transferred file alone
DisplayNow ==
  DisplayAfter([p \in {XferPath} |-> xf.size], delivered, Len(delivered))

\* C33: after the events the channel has accepted so far, the display's
\* totalDownloaded is at most the plan's TotalDownloadSize and the file's
\* processedBytes at most its totalSize (for a server that sends the
\* announced content).
C33_DisplayWithinTotals ==
  HonestServer =>
    /\ DisplayNow.totalDownloaded <= xf.size
    /\ DisplayNow.fileStates[XferPath].processedBytes <= xf.size

\* C34: when run returns nil after "Starting download...", at least one
\* ExecutePlan call was made and one of the calls returned nil, whatever
\* max-retries is.
C34_CompletedOnlyAfterSuccess ==
  (RunReturned /\ runResult.nil) =>
    \E k \in DOMAIN RetryCalls : RetryCalls[k].err.nil

\* C35: once the CLI has closed the progress channel every chunk worker has
\* ended and nobody is inside sendProgress, and from then on no event
\* reaches the channel's select: the channel is only drained.
C35_NoSendOnClosed ==
  /\ [](mpc = "closed" => (AllWorkersEnded /\ mutex = -1))
  /\ [][mpc = "closed" =>
          /\ delivered' = delivered
          /\ dropped' = dropped
          /\ chan' \in {chan, Tail(chan)}]_vars

\* C35 witness: a two-worker transfer sent events, ExecutePlan returned
\* and the channel was closed with an event still in its buffer
C35_Witness ==
  /\ mpc = "closed"
  /\ xf.mode = "multi"
  /\ xf.n = 2
  /\ Len(delivered) >= 2
  /\ chan # <<>>

\* every worker's network and file I/O is over
WorkersIOEnded == \A i \in Workers : w[i].pc \in {"done", "failed", "blocked"}

\* downloadMultiThreaded (or downloadSingleThreaded) has returned
TransferReturned == mpc \notin {"wait", "merge"}

\* C36: no chunk worker is ever blocked sending its error, errChan never
\* holds more than its N entries, and once every worker's I/O has ended
\* wg.Wait() can return and the transfer returns, whichever workers failed.
C36_ErrorReportNeverBlocks ==
  /\ [](\A i \in Workers : w[i].pc # "blocked")
  /\ [](ErrChanLen(w) <= xf.n)
  /\ []((mpc = "wait" /\ WorkersIOEnded) => ENABLED WaitReturns)
  /\ (mpc = "wait" /\ WorkersIOEnded) ~> TransferReturned

\* C36 witness: both workers of a two-stream transfer failed, both errors
\* are in errChan and the transfer has returned with an error
C36_Witness ==
  /\ xf.mode = "multi"
  /\ xf.n = 2
  /\ ErrChanLen(w) = 2
  /\ mpc = "done"
  /\ xerr

\* the user has answered "y" to "Would you like to force a re-download
\* anyway?": the step that rewrites the plan
ForcedRewrite == cli.pc = "redownloadPrompt" /\ cli'.pc = "summary"

\* C37: the rewrite after "y" at the forced re-download prompt leaves a
\* plan whose FilesToDownload holds every file that was in FilesToSkip, once
\* and with the reason "forced re-download", whose FilesToSkip is empty and
\* whose totals are the sums of the sizes in its two lists (TotalSkipSize 0).
C37_ForcedRewriteKeepsInvariants ==
  [][ForcedRewrite =>
       /\ plan'.FilesToSkip = <<>>
       /\ plan'.TotalSkipSize = 0
       /\ plan'.TotalDownloadSize
            = SizeOfFirst(plan'.FilesToDownload, Len(plan'.FilesToDownload))
       /\ \A k \in DOMAIN plan'.FilesToDownload :
            plan'.FilesToDownload[k].Reason = "forced re-download"
       /\ \A k \in DOMAIN repo.Siblings :
            CountIn(plan'.FilesToDownload, repo.Siblings[k])
              = CountIn(plan.FilesToSkip, repo.Siblings[k])
                  + CountIn(plan.FilesToDownload, repo.Siblings[k])
       /\ Len(plan'.FilesToDownload)
            = Len(plan.FilesToSkip) + Len(plan.FilesToDownload)]_vars

\* C37 witness: both files were valid on disk, the user answered "y", and
\* the plan now downloads both
C37_Witness ==
  /\ cli.pc = "summary"
  /\ AnswersYes(cli.input)
  /\ ~cli.force
  /\ Len(plan.FilesToDownload) = 2
  /\ plan.FilesToSkip = <<>>
  /\ plan.TotalDownloadSize = FileAJ.Size + FileMB.Size

\* the number of bytes asked for by the ranged request of chunk i
RangeLength(size, n, i) == ChunkEnd(size, n, i) - ChunkStart(size, n, i) + 1

\* C38: for every file of the plan that downloadFile sends down the
\* multi-stream path, each of the numConnections ranged requests has
\* start <= end and asks for at least 1 MiB.
C38_RangesNonEmpty ==
  \A k \in DOMAIN plan.FilesToDownload :
    LET file == plan.FilesToDownload[k].File
        n == d.numConnections
    IN ~UseSingleThreaded(d, file) =>
         \A i \in 0..(n - 1) :
           /\ ChunkStart(file.Size, n, i) <= ChunkEnd(file.Size, n, i)
           /\ RangeLength(file.Size, n, i) >= MiB

\* C38 witness: ExecutePlan has returned after sending a large object of
\* two chunks of exactly 1 MiB down the multi-stream path
C38_Witness ==
  /\ pc = "executed"
  /\ d.numConnections = 2
  /\ MultiStreamSeen(progressCalls, downloadErrors, FileMB)
  /\ RangeLength(FileMB.Size, 2, 0) = MiB
  /\ RangeLength(FileMB.Size, 2, 1) = MiB

\* C39: while New applies its options and after it has returned, the
\* connection count is at least 1, and WithConnections and
\* WithNumConnections with n <= 0 leave it as it is; so the chunk size
\* file.Size / numConnections never divides by zero or a negative number.
C39_ConnectionsPositive ==
  pc \in {"New", "constructed"} =>
    /\ d.numConnections >= 1
    /\ \A k \in -1..0 :
         /\ WithConnections(d, k) = d
         /\ WithNumConnections(d, k) = d

\* C39 witness: New returned after two options and every field still has
\* its default: both options were connection counts that are not positive
C39_Witness ==
  /\ pc = "constructed"
  /\ idx = 3
  /\ d = Downloader(DefaultConnections, FALSE, FALSE, [inc |-> <<>>, exc |-> <<>>])

====
